---- MODULE Spec2Model ----
(***************************************************************************)
(* LiquidaPro: payroll extraction (core/pdf_extractor.py), consolidation   *)
(* (core/data_processor.py) and the main window with its worker thread     *)
(* (ui/main_window.py).                                                    *)
(*                                                                         *)
(* A text is a sequence of tokens separated by blanks.  A token is a       *)
(* sequence of characters; a label of the layout ("Id. Hr:", "Apellido y   *)
(* Nombre:", ...) is a token of one atomic character.  Amounts are kept    *)
(* in centavos.                                                            *)
(***************************************************************************)
EXTENDS Integers, Sequences, FiniteSets, TLC

VARIABLES
    file,               \* the file handed to load_file
    raw_text,           \* PDFExtractor._raw_text
    blocks,             \* PDFExtractor._blocks
    concept_names_dv,   \* PDFExtractor._all_concept_names_dv
    concept_names_rt,   \* PDFExtractor._all_concept_names_rt
    chunks,             \* raw_blocks of the last extract_blocks call
    parsed,             \* what _parse_block returned for each of them
    pc,                 \* position of the pipeline
    err,                \* exception raised by the last call, "none" if it returned
    consolidated,       \* value returned by the last consolidate call that returned
    calls,              \* history of the consolidate calls: flag and outcome
    attempts,           \* what the last load_file call tried, in order
    file_paths,         \* ProcessThread.file_paths
    idx,                \* position of the loop of ProcessThread.run
    all_blocks,         \* all_blocks of ProcessThread.run
    signal,             \* signal emitted by ProcessThread.run, "none" before
    payload,            \* what the signal carries
    num_text,           \* argument of _parse_ar_number
    num_value,          \* what _parse_ar_number returned, <<>> before the call
    num_shown,          \* the value formatted for the table, <<>> before
    selected_keys,      \* argument of to_dataframe
    df,                 \* what to_dataframe returned, <<>> before the call
    totals,             \* what calculate_totals returned, <<>> before the call
    extractors,         \* the PDFExtractor objects of concurrent or repeated use
    workers,            \* the caller of each of them: its position, its locals, its calls
    window,             \* the attributes of MainWindow and the enabled state of its buttons
    threads,            \* the ProcessThread objects started so far, in order
    handler,            \* the handler or thread step that ran last, "none" before
    cleared,            \* history: _on_clear ran and no file was loaded since
    finished_seen,      \* history: a finished signal was handled since the last load or clear
    col_checks          \* MainWindow.col_checks: key -> checked

pipeVars == <<file, raw_text, blocks, concept_names_dv, concept_names_rt, chunks,
              parsed, pc, err, consolidated, calls, attempts>>
threadVars == <<file_paths, idx, all_blocks, signal, payload>>
numberVars == <<num_text, num_value, num_shown>>
frameVars == <<selected_keys, df, totals>>

poolVars == <<extractors, workers>>

windowVars == <<window, threads, handler, cleared, finished_seen, col_checks>>

vars == <<pipeVars, threadVars, numberVars, frameVars, poolVars, windowVars>>

----------------------------------------------------------------------------
(* Bounds *)

MaxSegs == 3
MaxCalls == 2
MaxFiles == 3
MaxNumLen == 4
MaxGroups == 1
MaxRecs == 2
MaxKeys == 2
MaxExtractors == 2
MaxOps == 4
MaxRuns == 2

----------------------------------------------------------------------------
(* Tokens *)

LblId == <<"Id. Hr:">>
LblNombre == <<"Apellido y Nombre:">>
LblCentro == <<"Centro Pago">>
LblCargo == <<"Cargo:">>
LblRol == <<"Rol:">>
LblDias == <<"Dias Trab:">>
LblFecha == <<"Fecha Alta:">>
LblRem == <<"Rem c/ Aporte">>
LblRemSin == <<"Rem s/ Aporte">>
LblLiq == <<"Liq. Pesos:">>
LblComp == <<"Complemento Remunerativo">>
LblAjuste == <<"Ajuste Dif. Aporte Minimo APROSS">>
LblDesc == <<"Descuento APROSS por afiliados Familiares Voluntar">>
LblLiquidacion == <<"LIQUIDACION">>
TagDV == <<"DV">>
TagRT == <<"RT">>
NL == <<"\n">>

Digits == {"0", "1", "2", "3", "4", "5", "6", "7", "8", "9"}

DigitVal(c) ==
    CASE c = "0" -> 0 [] c = "1" -> 1 [] c = "2" -> 2 [] c = "3" -> 3
      [] c = "4" -> 4 [] c = "5" -> 5 [] c = "6" -> 6 [] c = "7" -> 7
      [] c = "8" -> 8 [] c = "9" -> 9

\* str.upper() on one character
UpperChar(c) ==
    CASE c = "a" -> "A" [] c = "b" -> "B" [] c = "n" -> "N" [] c = "o" -> "O"
      [] c = "x" -> "X"
      [] c = "Id. Hr:" -> "ID. HR:"
      [] c = "Apellido y Nombre:" -> "APELLIDO Y NOMBRE:"
      [] c = "Centro Pago" -> "CENTRO PAGO"
      [] c = "Cargo:" -> "CARGO:"
      [] c = "Rol:" -> "ROL:"
      [] c = "Dias Trab:" -> "DIAS TRAB:"
      [] c = "Fecha Alta:" -> "FECHA ALTA:"
      [] c = "Rem c/ Aporte" -> "REM C/ APORTE"
      [] c = "Rem s/ Aporte" -> "REM S/ APORTE"
      [] c = "Liq. Pesos:" -> "LIQ. PESOS:"
      [] c = "Complemento Remunerativo" -> "COMPLEMENTO REMUNERATIVO"
      [] c = "Ajuste Dif. Aporte Minimo APROSS" -> "AJUSTE DIF. APORTE MINIMO APROSS"
      [] c = "Descuento APROSS por afiliados Familiares Voluntar" ->
             "DESCUENTO APROSS POR AFILIADOS FAMILIARES VOLUNTAR"
      [] OTHER -> c

\* code point order of the characters, upper-cased labels ranked by their text
CharRank(c) ==
    CASE c = "\n" -> 0 [] c = " " -> 1 [] c = "," -> 2 [] c = "." -> 3
      [] c = "/" -> 4
      [] c \in Digits -> 5 + DigitVal(c)
      [] c = "A" -> 20
      [] c = "AJUSTE DIF. APORTE MINIMO APROSS" -> 21
      [] c = "APELLIDO Y NOMBRE:" -> 22
      [] c = "B" -> 23
      [] c = "CARGO:" -> 24
      [] c = "CENTRO PAGO" -> 25
      [] c = "COMPLEMENTO REMUNERATIVO" -> 26
      [] c = "DESCUENTO APROSS POR AFILIADOS FAMILIARES VOLUNTAR" -> 27
      [] c = "DIAS TRAB:" -> 28
      [] c = "DV" -> 29
      [] c = "FECHA ALTA:" -> 30
      [] c = "ID. HR:" -> 31
      [] c = "LIQ. PESOS:" -> 32
      [] c = "LIQUIDACION" -> 33
      [] c = "N" -> 34
      [] c = "O" -> 35
      [] c = "REM C/ APORTE" -> 36
      [] c = "REM S/ APORTE" -> 37
      [] c = "ROL:" -> 38
      [] c = "RT" -> 39
      [] c = "X" -> 40
      [] OTHER -> 41

Upper(s) == [i \in 1..Len(s) |-> UpperChar(s[i])]

\* the tokens of a sequence joined by single blanks
RECURSIVE Join(_)
Join(toks) ==
    IF toks = <<>> THEN <<>>
    ELSE IF Len(toks) = 1 THEN toks[1]
    ELSE toks[1] \o <<" ">> \o Join(Tail(toks))

Min(S) == CHOOSE x \in S : \A y \in S : x <= y

----------------------------------------------------------------------------
(* Numeric normalizer: PDFExtractor._parse_ar_number *)

IsWs(c) == c \in {" ", "\n"}

\* str.strip()
RECURSIVE Strip(_)
Strip(s) ==
    IF s = <<>> THEN s
    ELSE IF IsWs(s[1]) THEN Strip(Tail(s))
    ELSE IF IsWs(s[Len(s)]) THEN Strip(SubSeq(s, 1, Len(s) - 1))
    ELSE s

\* str.replace(c, '')
RemoveChar(s, c) == SelectSeq(s, LAMBDA x : x # c)

\* str.replace(a, b) on single characters
ReplaceChar(s, a, b) == [i \in 1..Len(s) |-> IF s[i] = a THEN b ELSE s[i]]

\* the digits of s read as a decimal numeral, 0 for the empty sequence
RECURSIVE DigitsVal(_)
DigitsVal(s) ==
    IF s = <<>> THEN 0
    ELSE 10 * DigitsVal(SubSeq(s, 1, Len(s) - 1)) + DigitVal(s[Len(s)])

DotPositions(s) == {i \in 1..Len(s) : s[i] = "."}

\* a number: its integer part and the digits of its fraction, without the
\* zeros at the end
Number(int, frac) == [int |-> int, frac |-> frac]
Zero == Number(0, <<>>)

RECURSIVE TrimZeros(_)
TrimZeros(d) ==
    IF d # <<>> /\ d[Len(d)] = "0" THEN TrimZeros(SubSeq(d, 1, Len(d) - 1)) ELSE d

\* what float() reads, blanks around it apart: digits with at most one decimal
\* point and at least one digit.  (float() reads signs, exponents, underscores,
\* inf and nan too: no text of the model has the characters to write them.)
FloatAccepts(s) ==
    /\ \A i \in 1..Len(s) : s[i] \in Digits \cup {"."}
    /\ Cardinality(DotPositions(s)) <= 1
    /\ \E i \in 1..Len(s) : s[i] \in Digits

\* the value of a literal that float() reads
FloatValue(s) ==
    LET dot == IF DotPositions(s) = {} THEN Len(s) + 1 ELSE Min(DotPositions(s))
    IN  Number(DigitsVal(SubSeq(s, 1, dot - 1)), TrimZeros(SubSeq(s, dot + 1, Len(s))))

\* float(s): the value, or the ValueError
float(s) ==
    IF FloatAccepts(Strip(s)) THEN [raised |-> "none", value |-> FloatValue(Strip(s))]
    ELSE [raised |-> "ValueError", value |-> Zero]

\* _parse_ar_number letting the exception of float() through
parse_ar_number_uncaught(text) ==
    IF text = <<>> THEN [raised |-> "none", value |-> Zero]
    ELSE float(ReplaceChar(RemoveChar(Strip(text), "."), ",", "."))

\* _parse_ar_number on a string: what it raises and what it returns
parse_ar_number(text) ==
    IF text = <<>> THEN [raised |-> "none", value |-> Zero]
    ELSE LET clean == ReplaceChar(RemoveChar(Strip(text), "."), ",", ".")
         IN  IF float(clean).raised \in {"ValueError", "AttributeError"}
             THEN [raised |-> "none", value |-> Zero]
             ELSE float(clean)

\* a number of at most two decimals, in centavos: the amounts of the blocks,
\* whose patterns capture two decimals
Centavos(v) ==
    100 * v.int + 10 * (IF Len(v.frac) >= 1 THEN DigitVal(v.frac[1]) ELSE 0)
                + (IF Len(v.frac) >= 2 THEN DigitVal(v.frac[2]) ELSE 0)

----------------------------------------------------------------------------
(* Pattern search over a chunk of tokens *)

IsDigitsTok(t) == t # <<>> /\ \A i \in 1..Len(t) : t[i] \in Digits

\* longest prefix of t made of characters of S
PrefixLen(t, S) ==
    IF \A i \in 1..Len(t) : t[i] \in S THEN Len(t)
    ELSE Min({i \in 1..Len(t) : t[i] \notin S}) - 1

\* ([\d.]+,\d{2}) matched at the start of t: the length matched, 0 if none
AmountLen(t) ==
    LET r == PrefixLen(t, Digits \cup {"."})
    IN  IF /\ r >= 1
           /\ Len(t) >= r + 3
           /\ t[r + 1] = ","
           /\ t[r + 2] \in Digits
           /\ t[r + 3] \in Digits
        THEN r + 3 ELSE 0

\* \s* from position i: the first position at or after i that is not a newline
SkipNL(c, i) ==
    IF \E k \in i..Len(c) : c[k] # NL
    THEN Min({k \in i..Len(c) : c[k] # NL})
    ELSE Len(c) + 1

\* label\s*([chars]+): the group of the leftmost match, <<>> if there is none
SearchValue(c, lbl, S) ==
    LET hits == {i \in 1..Len(c) :
                    /\ c[i] = lbl
                    /\ SkipNL(c, i + 1) <= Len(c)
                    /\ PrefixLen(c[SkipNL(c, i + 1)], S) >= 1}
    IN  IF hits = {} THEN <<>>
        ELSE LET t == c[SkipNL(c, Min(hits) + 1)]
             IN  SubSeq(t, 1, PrefixLen(t, S))

\* label\s+([\d.]+,\d{2}): the group of the leftmost match, <<>> if there is none
SearchAmount(c, lbl) ==
    LET hits == {i \in 1..Len(c) :
                    /\ c[i] = lbl
                    /\ SkipNL(c, i + 1) <= Len(c)
                    /\ AmountLen(c[SkipNL(c, i + 1)]) > 0}
    IN  IF hits = {} THEN <<>>
        ELSE LET t == c[SkipNL(c, Min(hits) + 1)]
             IN  SubSeq(t, 1, AmountLen(t))

\* the field read from whatever follows the first label, amount or not
AmountFieldLoose(c, lbl) ==
    LET hits == {i \in 1..Len(c) : c[i] = lbl /\ SkipNL(c, i + 1) <= Len(c)}
    IN  IF hits = {} THEN 0
        ELSE Centavos(parse_ar_number(c[SkipNL(c, Min(hits) + 1)]).value)

\* m = RE.search(raw); parse_ar_number(m.group(1)) if m else 0.0
AmountField(c, lbl) ==
    IF SearchAmount(c, lbl) = <<>> THEN 0
    ELSE Centavos(parse_ar_number(SearchAmount(c, lbl)).value)

\* RE_NOMBRE tried at the name label at position i: <<group>> when it matches
\* there, <<>> when it does not.  The group is a sequence of tokens; the group
\* of one blank is the empty sequence.
NombreAt(c, i) ==
    LET p == SkipNL(c, i + 1)
        cps == {j \in (p + 1)..Len(c) : c[j] = LblCentro}
        j1 == Min(cps)
        last == CHOOSE k \in p..(j1 - 1) :
                    c[k] # NL /\ \A n \in (k + 1)..(j1 - 1) : c[n] = NL
    IN  IF p > Len(c) THEN <<>>
        ELSE IF cps # {} /\ \A k \in p..last : c[k] # NL
             THEN <<SubSeq(c, p, last)>>
        ELSE IF c[p] = LblCentro THEN << <<>> >>
        ELSE <<>>

\* RE_NOMBRE.search(raw): the leftmost match
RE_NOMBRE(c) ==
    LET hits == {i \in 1..Len(c) : c[i] = LblNombre /\ NombreAt(c, i) # <<>>}
    IN  IF hits = {} THEN <<>> ELSE NombreAt(c, Min(hits))

----------------------------------------------------------------------------
(* Itemized lines: RE_CONCEPTO_DV, RE_CONCEPTO_RT *)

\* a token that is an amount from its first to its last character
IsAmountTok(t) == AmountLen(t) > 0 /\ AmountLen(t) = Len(t)

\* ends e of a description that starts at q: no newline in q..e, then blanks,
\* an amount and the end of the line
ConceptEnds(c, q) ==
    {e \in q..Len(c) :
        /\ \A k \in q..e : c[k] # NL
        /\ LET a == SkipNL(c, e + 1)
           IN  /\ a <= Len(c)
               /\ IsAmountTok(c[a])
               /\ (a = Len(c) \/ c[a + 1] = NL)}

\* the pattern matches with its tag at position i
ConceptAt(c, tag, i) ==
    /\ c[i] = tag
    /\ LET p == SkipNL(c, i + 1)
       IN  /\ p <= Len(c)
           /\ IsDigitsTok(c[p])
           /\ SkipNL(c, p + 1) <= Len(c)
           /\ ConceptEnds(c, SkipNL(c, p + 1)) # {}

\* finditer from position pos on: the mapping key -> value, a later line with
\* the key of an earlier one replaces it
RECURSIVE Conceptos(_, _, _, _)
Conceptos(c, tag, pos, acc) ==
    LET hits == {i \in pos..Len(c) : ConceptAt(c, tag, i)}
    IN  IF hits = {} THEN acc
        ELSE LET i == Min(hits)
                 p == SkipNL(c, i + 1)
                 q == SkipNL(c, p + 1)
                 e == Min(ConceptEnds(c, q))
                 a == SkipNL(c, e + 1)
                 key == Join(<<tag, c[p], Strip(Join(SubSeq(c, q, e)))>>)
                 value == Centavos(parse_ar_number(c[a]).value)
             IN  Conceptos(c, tag, a + 1, (key :> value) @@ acc)

EmptyDict == [k \in {} |-> 0]

----------------------------------------------------------------------------
(* RawEmployeeBlock and PDFExtractor._parse_block *)

\* the attributes of the dataclass RawEmployeeBlock
BlockAttrs ==
    {"nombre", "id_hr", "cargo", "rol", "dias_trab", "fecha_alta",
     "rem_con_aporte", "rem_sin_aporte", "liquido", "conceptos_dv",
     "conceptos_rt", "complemento_remunerativo", "ajuste_apross",
     "descuento_apross_familiar"}

\* RawEmployeeBlock(): every attribute at its default
RawEmployeeBlock ==
    [nombre |-> <<>>, id_hr |-> <<>>, cargo |-> <<>>, rol |-> <<>>,
     dias_trab |-> <<>>, fecha_alta |-> <<>>,
     rem_con_aporte |-> 0, rem_sin_aporte |-> 0, liquido |-> 0,
     conceptos_dv |-> EmptyDict, conceptos_rt |-> EmptyDict,
     complemento_remunerativo |-> 0, ajuste_apross |-> 0,
     descuento_apross_familiar |-> 0]

\* the block built from a chunk whose name is nombre
BlockOf(raw, nombre) ==
    [RawEmployeeBlock EXCEPT
       !.nombre = nombre,
       !.id_hr = SearchValue(raw, LblId, Digits),
       !.cargo = SearchValue(raw, LblCargo, Digits),
       !.rol = SearchValue(raw, LblRol, Digits),
       !.dias_trab = SearchValue(raw, LblDias, Digits),
       !.fecha_alta = SearchValue(raw, LblFecha, Digits \cup {"/"}),
       !.rem_con_aporte = AmountField(raw, LblRem),
       !.rem_sin_aporte = AmountField(raw, LblRemSin),
       !.liquido = AmountField(raw, LblLiq),
       !.complemento_remunerativo = AmountField(raw, LblComp),
       !.ajuste_apross = AmountField(raw, LblAjuste),
       !.descuento_apross_familiar = AmountField(raw, LblDesc),
       !.conceptos_dv = Conceptos(raw, TagDV, 1, EmptyDict),
       !.conceptos_rt = Conceptos(raw, TagRT, 1, EmptyDict)]

\* _parse_block without its validity test: a chunk without a name gives a
\* block with an empty name
parse_block_unchecked(raw) ==
    LET name_m == RE_NOMBRE(raw)
    IN  << BlockOf(raw, IF name_m = <<>> THEN <<>>
                        ELSE Upper(Strip(Join(name_m[1])))) >>

\* <<block>> for a chunk with a name, <<>> (None) for a chunk without
parse_block(raw) ==
    LET name_m == RE_NOMBRE(raw)
    IN  IF name_m = <<>> THEN <<>>
        ELSE << BlockOf(raw, Upper(Strip(Join(name_m[1])))) >>

----------------------------------------------------------------------------
(* Segmentation: re.split(r'(?=Id\.\s*Hr:)', text) *)

IdPositions(text) == {i \in 1..Len(text) : text[i] = LblId}

\* the pieces of text[from..] cut before every internal-id label after from
RECURSIVE SplitFrom(_, _)
SplitFrom(text, from) ==
    LET later == {i \in IdPositions(text) : i > from}
    IN  IF later = {} THEN <<SubSeq(text, from, Len(text))>>
        ELSE <<SubSeq(text, from, Min(later) - 1)>> \o SplitFrom(text, Min(later))

\* the text before the first label, empty or not, is the first piece
SplitIdHr(text) ==
    IF IdPositions(text) = {} THEN <<text>>
    ELSE <<SubSeq(text, 1, Min(IdPositions(text)) - 1)>>
             \o SplitFrom(text, Min(IdPositions(text)))

RECURSIVE Flatten(_)
Flatten(segs) == IF segs = <<>> THEN <<>> ELSE segs[1] \o Flatten(Tail(segs))

\* block = self._parse_block(raw) for every raw of raw_blocks
ParseEach(cs) == [i \in 1..Len(cs) |-> parse_block(cs[i])]

\* the blocks put at the front of _blocks instead of appended to it
ParseAllReversed(cs) ==
    Flatten([i \in 1..Len(cs) |-> parse_block(cs[Len(cs) + 1 - i])])

\* the blocks appended to _blocks: those of the chunks that gave one, in order
ParseAll(cs) == Flatten(ParseEach(cs))

\* the keys added to _all_concept_names_dv / _rt while parsing
ConceptNames(bs, attr) == UNION {DOMAIN bs[i][attr] : i \in 1..Len(bs)}

----------------------------------------------------------------------------
(* DataProcessor.consolidate *)

\* str < str
RECURSIVE StrLess(_, _)
StrLess(a, b) ==
    IF b = <<>> THEN FALSE
    ELSE IF a = <<>> THEN TRUE
    ELSE IF CharRank(a[1]) # CharRank(b[1]) THEN CharRank(a[1]) < CharRank(b[1])
    ELSE StrLess(Tail(a), Tail(b))

\* list(accum.keys()): the names in the order each is first seen
RECURSIVE FirstSeen(_, _)
FirstSeen(bs, seen) ==
    IF bs = <<>> THEN seen
    ELSE IF \E i \in 1..Len(seen) : seen[i] = bs[1].nombre
         THEN FirstSeen(Tail(bs), seen)
         ELSE FirstSeen(Tail(bs), Append(seen, bs[1].nombre))

\* x put in its place in the ascending sequence srt
RECURSIVE Insert(_, _)
Insert(x, srt) ==
    IF srt = <<>> THEN <<x>>
    ELSE IF StrLess(x, srt[1]) THEN <<x>> \o srt
    ELSE <<srt[1]>> \o Insert(x, Tail(srt))

\* sorted(accum.keys())
RECURSIVE Sorted(_)
Sorted(names) ==
    IF names = <<>> THEN <<>> ELSE Insert(names[1], Sorted(Tail(names)))

\* accum[name][attr] after the loop: attr added up over the blocks of name
RECURSIVE Accum(_, _, _)
Accum(bs, name, attr) ==
    IF bs = <<>> THEN 0
    ELSE (IF bs[1].nombre = name THEN bs[1][attr] ELSE 0)
             + Accum(Tail(bs), name, attr)

\* the blocks that pass the filter of the weighted average
Weighted(bs) ==
    SelectSeq(bs, LAMBDA b : b.aporte_jub_ley11087 > 0 /\ b.rem_con_aporte > 0)

\* round((aporte_total / rem_total) * 100): to the nearest integer, a tie to
\* the even one.  The quotient is taken exactly: where it is a tie the
\* floating-point product may lie just under it and round down.
Round(num, den) ==
    LET q == num \div den
        r == num % den
    IN  IF 2 * r < den THEN q
        ELSE IF 2 * r > den THEN q + 1
        ELSE IF q % 2 = 0 THEN q ELSE q + 1

ConsolidatedRow(bs, name) ==
    LET rem_total == Accum(Weighted(bs), name, "rem_con_aporte")
        aporte_total == Accum(Weighted(bs), name, "aporte_jub_ley11087")
    IN  [nombre |-> name,
         rem_con_aporte |-> Accum(bs, name, "rem_con_aporte"),
         liquido |-> Accum(bs, name, "liquido"),
         complemento_remunerativo |-> Accum(bs, name, "complemento_remunerativo"),
         ajuste_apross |-> Accum(bs, name, "ajuste_apross"),
         descuento_apross_familiar |-> Accum(bs, name, "descuento_apross_familiar"),
         pct_jub_ley11087 |->
             IF rem_total > 0 THEN Round(aporte_total * 100, rem_total) ELSE 0]

\* the outcome of consolidate(blocks, sort_alpha): reading b.aporte_jub_ley11087
\* raises AttributeError on a block that has no such attribute
consolidate(bs, sort_alpha) ==
    IF \E i \in 1..Len(bs) : "aporte_jub_ley11087" \notin DOMAIN bs[i]
    THEN [raised |-> "AttributeError", value |-> <<>>]
    ELSE LET names == IF sort_alpha THEN Sorted(FirstSeen(bs, <<>>))
                      ELSE FirstSeen(bs, <<>>)
         IN  [raised |-> "none",
              value |-> [i \in 1..Len(names) |-> ConsolidatedRow(bs, names[i])]]

----------------------------------------------------------------------------
(* PDFExtractor.load_file *)

\* 'Apellido y Nombre' in text and ('LIQUIDACION' in text or 'Liq.' in text)
HasMarkers(text) ==
    /\ \E i \in 1..Len(text) : text[i] = LblNombre
    /\ \E i \in 1..Len(text) : text[i] \in {LblLiquidacion, LblLiq}

\* what one back-end returns: the text of the pages, <<>> when it raises or
\* no page has text
Backend(f, status) == IF status = "text" THEN f.pages ELSE <<>>

\* _extract_from_pdf: pdfplumber, then pymupdf, then None; tried lists the
\* back-ends it called
extract_from_pdf(f) ==
    IF Backend(f, f.plumber) # <<>>
    THEN [text |-> Backend(f, f.plumber), tried |-> <<"pdfplumber">>]
    ELSE [text |-> Backend(f, f.fitz), tried |-> <<"pdfplumber", "fitz">>]

Encodings == <<"utf-8", "latin-1", "cp1252">>

\* the loop of _read_as_text from the i-th encoding on
RECURSIVE ReadFrom(_, _)
ReadFrom(f, i) ==
    IF i > Len(Encodings) THEN [text |-> <<>>, tried |-> <<>>]
    ELSE LET enc == Encodings[i]
         IN  IF enc \in f.decodes /\ HasMarkers(f.content[enc])
             THEN [text |-> f.content[enc], tried |-> <<enc>>]
             ELSE [text |-> ReadFrom(f, i + 1).text,
                   tried |-> <<enc>> \o ReadFrom(f, i + 1).tried]

\* _read_as_text without the test of the markers
read_as_text_unmarked(f) ==
    IF \E i \in 1..Len(Encodings) : Encodings[i] \in f.decodes
    THEN LET i == CHOOSE j \in 1..Len(Encodings) :
                      /\ Encodings[j] \in f.decodes
                      /\ \A k \in 1..(j - 1) : Encodings[k] \notin f.decodes
         IN  [text |-> f.content[Encodings[i]], tried |-> SubSeq(Encodings, 1, i)]
    ELSE [text |-> <<>>, tried |-> Encodings]

\* _read_as_text: the first encoding that decodes and shows the markers
read_as_text(f) == ReadFrom(f, 1)

\* load_file calling the back-ends whatever the first bytes are
load_file_unsigned(f) ==
    IF ~f.exists
    THEN [raised |-> "FileNotFoundError", text |-> <<>>, tried |-> <<>>]
    ELSE LET pdf == extract_from_pdf(f)
         IN  IF pdf.text # <<>>
             THEN [raised |-> "none", text |-> pdf.text,
                   tried |-> <<"header">> \o pdf.tried]
             ELSE IF read_as_text(f).text # <<>>
             THEN [raised |-> "none", text |-> read_as_text(f).text,
                   tried |-> <<"header">> \o pdf.tried \o read_as_text(f).tried]
             ELSE [raised |-> "ValueError", text |-> <<>>,
                   tried |-> <<"header">> \o pdf.tried \o read_as_text(f).tried]

\* load_file without the test of path.exists()
load_file_unguarded(f) ==
    LET pdf == IF f.header_pdf THEN extract_from_pdf(f)
               ELSE [text |-> <<>>, tried |-> <<>>]
    IN  IF pdf.text # <<>>
        THEN [raised |-> "none", text |-> pdf.text,
              tried |-> <<"header">> \o pdf.tried]
        ELSE IF read_as_text(f).text # <<>>
        THEN [raised |-> "none", text |-> read_as_text(f).text,
              tried |-> <<"header">> \o pdf.tried \o read_as_text(f).tried]
        ELSE [raised |-> "ValueError", text |-> <<>>,
              tried |-> <<"header">> \o pdf.tried \o read_as_text(f).tried]

\* the outcome of load_file: the exception raised or the text returned, and
\* the attempts made on the way ("header" is the read of the first bytes)
load_file(f) ==
    IF ~f.exists
    THEN [raised |-> "FileNotFoundError", text |-> <<>>, tried |-> <<>>]
    ELSE LET pdf == IF f.header_pdf THEN extract_from_pdf(f)
                    ELSE [text |-> <<>>, tried |-> <<>>]
         IN  IF pdf.text # <<>>
             THEN [raised |-> "none", text |-> pdf.text,
                   tried |-> <<"header">> \o pdf.tried]
             ELSE IF read_as_text(f).text # <<>>
             THEN [raised |-> "none", text |-> read_as_text(f).text,
                   tried |-> <<"header">> \o pdf.tried \o read_as_text(f).tried]
             ELSE [raised |-> "ValueError", text |-> <<>>,
                   tried |-> <<"header">> \o pdf.tried \o read_as_text(f).tried]

----------------------------------------------------------------------------
(* The files of the model *)

Ana == <<"a", "n", "a">>
Bo == <<"B", "O">>

Segments ==
    { <<LblId, <<"7">>>>,
      <<LblNombre, Ana, LblCentro>>,
      <<LblNombre, Bo, LblCentro>>,
      <<LblNombre, LblCentro>>,
      <<LblNombre, Ana>>,
      <<LblRem, <<"1", ".", "0", "0", "0", ",", "5", "0">>, LblLiq, <<"2", ",", "0", "0">>>>,
      <<TagDV, <<"1", "0", "1">>, LblComp, <<"3", ",", "0", "0">>, NL>>,
      <<LblRemSin, <<"7">>>>,
      <<LblLiquidacion>> }

Texts == {Flatten(segs) : segs \in UNION {[1..n -> Segments] : n \in 0..MaxSegs}}

EncodingSet == {Encodings[i] : i \in 1..Len(Encodings)}

\* the same text under every encoding, <<>> under those that do not decode
Decoded(decodes, t) == [enc \in EncodingSet |-> IF enc \in decodes THEN t ELSE <<>>]

MissingFile ==
    [exists |-> FALSE, header_pdf |-> FALSE, plumber |-> "raises", fitz |-> "raises",
     pages |-> <<>>, decodes |-> {}, content |-> Decoded({}, <<>>)]

\* a text file with the layout of a payroll statement
PlainFile(t) ==
    [exists |-> TRUE, header_pdf |-> FALSE, plumber |-> "raises", fitz |-> "raises",
     pages |-> <<>>, decodes |-> EncodingSet, content |-> Decoded(EncodingSet, t)]

\* a real PDF: its bytes decode as latin-1 to a text without the markers
PdfFile(t, plumber, fitz) ==
    [exists |-> TRUE, header_pdf |-> TRUE, plumber |-> plumber, fitz |-> fitz,
     pages |-> t, decodes |-> {"latin-1", "cp1252"},
     content |-> Decoded({"latin-1", "cp1252"}, <<>>)]

\* a letter outside ASCII as each encoding shows it
Accent == <<"e acute">>
Mojibake == <<"A tilde, copyright sign">>
Control == <<"control character 0x81">>

\* a text file that holds the letter in UTF-8: two bytes that latin-1 and
\* cp1252 decode too, to something else
Utf8File(t) ==
    [PlainFile(t) EXCEPT !.content =
        [enc \in EncodingSet |-> IF enc = "utf-8" THEN Append(t, Accent)
                                 ELSE Append(t, Mojibake)]]

\* a text file that holds the letter in latin-1: one byte that is no UTF-8
Latin1File(t) ==
    [PlainFile(t) EXCEPT !.decodes = {"latin-1", "cp1252"},
                         !.content = Decoded({"latin-1", "cp1252"}, Append(t, Accent))]

\* a text file with the byte 0x81: no UTF-8, and undefined in cp1252
RawByteFile(t) ==
    [PlainFile(t) EXCEPT !.decodes = {"latin-1"},
                         !.content = Decoded({"latin-1"}, Append(t, Control))]

\* a file that exists and that open() refuses
UnreadableFile == [MissingFile EXCEPT !.exists = TRUE]

\* a file that starts with %PDF- and decodes to t
SignedFile(pages, t, plumber, fitz) ==
    [PdfFile(pages, plumber, fitz) EXCEPT !.content = Decoded({"latin-1", "cp1252"}, t)]

Statement ==
    <<LblId, <<"7">>, LblNombre, Ana, LblCentro, LblLiq, <<"2", ",", "0", "0">>>>

ShapeTexts == {<<>>, <<LblId, <<"7">>>>, Statement}

Outcomes == {"text", "empty", "raises"}

Files ==
    {MissingFile, UnreadableFile}
        \cup {PlainFile(t) : t \in Texts}
        \cup {PdfFile(t, "text", "text") : t \in Texts}
        \cup {PdfFile(t, "raises", "text") : t \in Texts}
        \cup {Utf8File(t) : t \in ShapeTexts}
        \cup {Latin1File(t) : t \in ShapeTexts}
        \cup {RawByteFile(t) : t \in ShapeTexts}
        \cup {SignedFile(p, t, a, b) : p \in ShapeTexts, t \in ShapeTexts,
                                       a \in Outcomes, b \in Outcomes}

----------------------------------------------------------------------------
(* The pipeline: load_file, extract_blocks, consolidate *)

Init ==
    /\ file \in Files
    /\ raw_text = <<>>
    /\ blocks = <<>>
    /\ concept_names_dv = {}
    /\ concept_names_rt = {}
    /\ chunks = <<>>
    /\ parsed = <<>>
    /\ pc = "new"
    /\ err = "none"
    /\ consolidated = <<>>
    /\ calls = <<>>
    /\ attempts = <<>>
    /\ file_paths = <<>>
    /\ idx = 0
    /\ all_blocks = <<>>
    /\ signal = "none"
    /\ payload = <<>>
    /\ num_text = <<>>
    /\ num_value = <<>>
    /\ num_shown = <<>>
    /\ selected_keys = <<>>
    /\ df = <<>>
    /\ totals = <<>>
    /\ extractors = <<>>
    /\ workers = <<>>
    /\ window = <<>>
    /\ threads = <<>>
    /\ handler = "none"
    /\ cleared = FALSE
    /\ finished_seen = FALSE
    /\ col_checks = <<>>

LoadFile ==
    /\ pc = "new"
    /\ LET out == load_file(file)
       IN  /\ err' = out.raised
           /\ raw_text' = IF out.raised = "none" THEN out.text ELSE raw_text
           /\ pc' = IF out.raised = "none" THEN "loaded" ELSE "load_failed"
           /\ attempts' = out.tried
    /\ UNCHANGED <<file, blocks, concept_names_dv, concept_names_rt, chunks,
                   parsed, consolidated, calls>>
    /\ UNCHANGED <<threadVars, numberVars, frameVars, poolVars, windowVars>>

ExtractBlocks ==
    /\ pc \in {"new", "loaded"}
    /\ IF raw_text = <<>>
       THEN /\ err' = "ValueError: no text"
            /\ pc' = "extract_failed"
            /\ UNCHANGED <<blocks, concept_names_dv, concept_names_rt, chunks, parsed>>
       ELSE LET raw_blocks == SplitIdHr(raw_text)
                found == ParseAll(raw_blocks)
            IN  /\ chunks' = raw_blocks
                /\ parsed' = ParseEach(raw_blocks)
                /\ blocks' = found
                /\ concept_names_dv' = ConceptNames(found, "conceptos_dv")
                /\ concept_names_rt' = ConceptNames(found, "conceptos_rt")
                /\ err' = IF found = <<>> THEN "ValueError: no records" ELSE "none"
                /\ pc' = IF found = <<>> THEN "extract_failed" ELSE "extracted"
    /\ UNCHANGED <<file, raw_text, consolidated, calls, attempts>>
    /\ UNCHANGED <<threadVars, numberVars, frameVars, poolVars, windowVars>>

Consolidate(sort_alpha) ==
    /\ pc \in {"extracted", "consolidated"}
    /\ Len(calls) < MaxCalls
    /\ LET out == consolidate(blocks, sort_alpha)
       IN  /\ err' = out.raised
           /\ consolidated' = IF out.raised = "none" THEN out.value ELSE consolidated
           /\ calls' = Append(calls, [sort_alpha |-> sort_alpha,
                                      raised |-> out.raised, value |-> out.value])
    /\ pc' = "consolidated"
    /\ UNCHANGED <<file, raw_text, blocks, concept_names_dv, concept_names_rt, chunks,
                   parsed, attempts>>
    /\ UNCHANGED <<threadVars, numberVars, frameVars, poolVars, windowVars>>

Next ==
    \/ LoadFile
    \/ ExtractBlocks
    \/ \E sort_alpha \in BOOLEAN : Consolidate(sort_alpha)

Spec == Init /\ [][Next]_vars

----------------------------------------------------------------------------
(* ProcessThread (ui/main_window.py): load and extract each file of a batch *)

\* extract_blocks on a fresh extractor whose _raw_text is t
extract_blocks(t) ==
    IF t = <<>> THEN [raised |-> "ValueError: no text", value |-> <<>>]
    ELSE IF ParseAll(SplitIdHr(t)) = <<>>
    THEN [raised |-> "ValueError: no records", value |-> <<>>]
    ELSE [raised |-> "none", value |-> ParseAll(SplitIdHr(t))]

\* a second statement, and a text with the markers and without a record
StatementBo ==
    <<LblId, <<"7">>, LblNombre, Bo, LblCentro, LblLiq, <<"2", ",", "0", "0">>>>
NoRecords == <<LblNombre, Ana, LblLiquidacion>>

BatchFiles ==
    {MissingFile, UnreadableFile, PlainFile(NoRecords), PlainFile(Statement),
     PlainFile(StatementBo)}

\* _on_process starts the thread on a list of files that is not empty
Batches == UNION {[1..n -> BatchFiles] : n \in 1..MaxFiles}

InitThread ==
    /\ file_paths \in Batches
    /\ idx = 1
    /\ all_blocks = <<>>
    /\ signal = "none"
    /\ payload = <<>>
    /\ file = MissingFile
    /\ raw_text = <<>>
    /\ blocks = <<>>
    /\ concept_names_dv = {}
    /\ concept_names_rt = {}
    /\ chunks = <<>>
    /\ parsed = <<>>
    /\ pc = "thread"
    /\ err = "none"
    /\ consolidated = <<>>
    /\ calls = <<>>
    /\ attempts = <<>>
    /\ num_text = <<>>
    /\ num_value = <<>>
    /\ num_shown = <<>>
    /\ selected_keys = <<>>
    /\ df = <<>>
    /\ totals = <<>>
    /\ extractors = <<>>
    /\ workers = <<>>
    /\ window = <<>>
    /\ threads = <<>>
    /\ handler = "none"
    /\ cleared = FALSE
    /\ finished_seen = FALSE
    /\ col_checks = <<>>

\* one turn of the loop of run: the exception of load_file or of
\* extract_blocks leaves the loop and is emitted as the error signal
ThreadFile ==
    /\ signal = "none"
    /\ idx <= Len(file_paths)
    /\ LET loaded == load_file(file_paths[idx])
           found == extract_blocks(loaded.text)
       IN  IF loaded.raised # "none"
           THEN /\ signal' = "error"
                /\ payload' = loaded.raised
                /\ UNCHANGED <<idx, all_blocks>>
           ELSE IF found.raised # "none"
           THEN /\ signal' = "error"
                /\ payload' = found.raised
                /\ UNCHANGED <<idx, all_blocks>>
           ELSE /\ all_blocks' = all_blocks \o found.value
                /\ idx' = idx + 1
                /\ UNCHANGED <<signal, payload>>
    /\ UNCHANGED <<file_paths, pipeVars, numberVars, frameVars, poolVars, windowVars>>

\* the end of the loop: the finished signal carries all_blocks
ThreadFinished ==
    /\ signal = "none"
    /\ idx > Len(file_paths)
    /\ signal' = "finished"
    /\ payload' = all_blocks
    /\ UNCHANGED <<file_paths, idx, all_blocks, pipeVars, numberVars,
                   frameVars, poolVars, windowVars>>

NextThread == ThreadFile \/ ThreadFinished

SpecThread == InitThread /\ [][NextThread]_vars

----------------------------------------------------------------------------
(* _parse_ar_number on strings, and the amount format of the table *)

\* the decimal numeral of n
RECURSIVE Numeral(_)
Numeral(n) ==
    IF n < 10 THEN <<CHOOSE c \in Digits : DigitVal(c) = n>>
    ELSE Append(Numeral(n \div 10), CHOOSE c \in Digits : DigitVal(c) = n % 10)

\* the ',' option of the format specification: a comma before every group of
\* three digits, from the right
RECURSIVE Grouped(_)
Grouped(d) ==
    IF Len(d) <= 3 THEN d
    ELSE Grouped(SubSeq(d, 1, Len(d) - 3)) \o <<",">> \o SubSeq(d, Len(d) - 2, Len(d))

\* f"{val:,.2f}" for a value of at most two decimals
FormatFixed2(v) ==
    Grouped(Numeral(v.int)) \o <<".">>
        \o <<IF Len(v.frac) >= 1 THEN v.frac[1] ELSE "0",
             IF Len(v.frac) >= 2 THEN v.frac[2] ELSE "0">>

\* fmt without the exchange of the separators
format_us(v) == FormatFixed2(v)

\* fmt of _fill_table: f"{val:,.2f}".replace(',', 'X').replace('.', ',').replace('X', '.')
format_ar(v) == ReplaceChar(ReplaceChar(ReplaceChar(FormatFixed2(v), ",", "X"), ".", ","), "X", ".")

Dash == <<"-">>

\* isinstance(val, (int, float)) and val > 0
Positive(v) == v.int > 0 \/ v.frac # <<>>

\* the text of an amount cell, the "$ " before fmt apart
cell_text(v) == IF Positive(v) THEN format_ar(v) ELSE Dash

NumChars == {"0", "1", ".", ",", " ", "a"}

\* every string of NumChars up to MaxNumLen
FreeTexts == UNION {[1..n -> NumChars] : n \in 0..MaxNumLen}

GrammarDigits == {"0", "1"}
DigitStrings(n) == [1..n -> GrammarDigits]

\* k groups of '.' and three digits
RECURSIVE Groups(_)
Groups(k) ==
    IF k = 0 THEN {<<>>}
    ELSE {g \o <<".">> \o d : g \in Groups(k - 1), d \in DigitStrings(3)}

\* strings of \d{1,3}(\.\d{3})*,\d{2} with up to MaxGroups groups
GrammarTexts ==
    {h \o g \o <<",">> \o d :
        h \in UNION {DigitStrings(n) : n \in 1..3},
        g \in UNION {Groups(k) : k \in 0..MaxGroups},
        d \in DigitStrings(2)}

\* the examples of the docstring and of the test
Examples ==
    { <<"1", ".", "2", "3", "4", ".", "5", "6", "7", ",", "8", "9">>,
      <<"1", "6", "2", "6", ",", "6", "1">>,
      <<"a", "b", "c">> }

NumTexts == FreeTexts \cup GrammarTexts \cup Examples

InitNumber ==
    /\ num_text \in NumTexts
    /\ num_value = <<>>
    /\ num_shown = <<>>
    /\ file = MissingFile
    /\ raw_text = <<>>
    /\ blocks = <<>>
    /\ concept_names_dv = {}
    /\ concept_names_rt = {}
    /\ chunks = <<>>
    /\ parsed = <<>>
    /\ pc = "number"
    /\ err = "none"
    /\ consolidated = <<>>
    /\ calls = <<>>
    /\ attempts = <<>>
    /\ file_paths = <<>>
    /\ idx = 0
    /\ all_blocks = <<>>
    /\ signal = "none"
    /\ payload = <<>>
    /\ selected_keys = <<>>
    /\ df = <<>>
    /\ totals = <<>>
    /\ extractors = <<>>
    /\ workers = <<>>
    /\ window = <<>>
    /\ threads = <<>>
    /\ handler = "none"
    /\ cleared = FALSE
    /\ finished_seen = FALSE
    /\ col_checks = <<>>

\* the call _parse_ar_number(num_text)
ParseNumber ==
    /\ num_value = <<>>
    /\ err = "none"
    /\ LET out == parse_ar_number(num_text)
       IN  /\ err' = out.raised
           /\ num_value' = IF out.raised = "none" THEN <<out.value>> ELSE <<>>
    /\ UNCHANGED <<file, raw_text, blocks, concept_names_dv, concept_names_rt, chunks,
                   parsed, pc, consolidated, calls, attempts>>
    /\ UNCHANGED <<num_text, num_shown, threadVars, frameVars, poolVars, windowVars>>

\* the amount cell of _fill_table for the value; the amounts of the table have
\* two decimals
FillCell ==
    /\ num_value # <<>>
    /\ num_shown = <<>>
    /\ Len(num_value[1].frac) <= 2
    /\ num_shown' = <<cell_text(num_value[1])>>
    /\ UNCHANGED <<num_text, num_value, pipeVars, threadVars, frameVars, poolVars, windowVars>>

NextNumber == ParseNumber \/ FillCell

SpecNumber == InitNumber /\ [][NextNumber]_vars

----------------------------------------------------------------------------
(* DataProcessor.to_dataframe *)

\* the values of a consolidated record and of a cell: a string or a number
Str(s) == [str |-> s]
Num(n) == [num |-> n]

\* DISPLAY_NAMES, its accents apart
DISPLAY_NAMES ==
    [nombre |-> "Apellido y Nombre",
     rem_con_aporte |-> "Rem c/ Aporte",
     liquido |-> "Liquido",
     complemento_remunerativo |-> "Complemento Remunerativo",
     ajuste_apross |-> "Ajuste Dif. Aporte Minimo APROSS",
     descuento_apross_familiar |-> "Descuento APROSS por afiliados Familiares Voluntar",
     pct_jub_ley11087 |-> "% Aporte Jub. Ley 11.087"]

\* DISPLAY_NAMES.get(key, key)
Display(key) == IF key \in DOMAIN DISPLAY_NAMES THEN DISPLAY_NAMES[key] ELSE key

\* rec.get(key, 0.0 if key != 'nombre' else '')
Get(rec, key) ==
    IF key \in DOMAIN rec THEN rec[key]
    ELSE IF key # "nombre" THEN Num(0) ELSE Str("")

\* the dict row after the loop over keys: the columns in the order they came
\* in, and the value under each, the last one written
RECURSIVE RowOf(_, _)
RowOf(rec, keys) ==
    IF keys = <<>> THEN [cols |-> <<>>, cell |-> [c \in {} |-> Num(0)]]
    ELSE LET before == RowOf(rec, SubSeq(keys, 1, Len(keys) - 1))
             key == keys[Len(keys)]
         IN  [cols |-> IF \E j \in 1..Len(before.cols) : before.cols[j] = Display(key)
                       THEN before.cols ELSE Append(before.cols, Display(key)),
              cell |-> (Display(key) :> Get(rec, key)) @@ before.cell]

\* pd.to_numeric(errors='coerce').fillna(0.0) on one value: a number stays, a
\* string that is no numeral becomes 0.0
to_numeric(v) == IF "num" \in DOMAIN v THEN v ELSE Num(0)

\* to_dataframe with the keys as column names
to_dataframe_unnamed(recs, keys) ==
    [columns |-> keys,
     rows |-> [i \in 1..Len(recs) |-> [c \in {keys[j] : j \in 1..Len(keys)} |->
                  IF c # "nombre" THEN to_numeric(Get(recs[i], c)) ELSE Get(recs[i], c)]]]

\* the frame: its columns, those of the first row, and its rows
to_dataframe(recs, keys) ==
    [columns |-> IF recs = <<>> THEN <<>> ELSE RowOf(recs[1], keys).cols,
     rows |-> [i \in 1..Len(recs) |->
                  [c \in DOMAIN RowOf(recs[i], keys).cell |->
                      IF c # "Apellido y Nombre"
                      THEN to_numeric(RowOf(recs[i], keys).cell[c])
                      ELSE RowOf(recs[i], keys).cell[c]]]]

\* pd.api.types.is_numeric_dtype(df[col]): every value of the column is a number
is_numeric_dtype(frame, col) ==
    \A i \in 1..Len(frame.rows) : "num" \in DOMAIN frame.rows[i][col]

\* df[col].sum() over the first n rows
RECURSIVE ColumnSum(_, _, _)
ColumnSum(frame, col, n) ==
    IF n = 0 THEN 0 ELSE ColumnSum(frame, col, n - 1) + frame.rows[n][col].num

\* the columns of the frame that calculate_totals adds up
Summable(frame, skipped) ==
    {frame.columns[j] : j \in 1..Len(frame.columns)} \ skipped

\* calculate_totals adding up the percentages too
calculate_totals_with_pct(frame) ==
    [col \in {c \in Summable(frame, {"Apellido y Nombre"}) : is_numeric_dtype(frame, c)}
        |-> ColumnSum(frame, col, Len(frame.rows))]

\* calculate_totals: the dict column -> sum
calculate_totals(frame) ==
    [col \in {c \in Summable(frame, {"Apellido y Nombre", Display("pct_jub_ley11087")}) :
                 is_numeric_dtype(frame, c)}
        |-> ColumnSum(frame, col, Len(frame.rows))]

\* keys of the records, and a key no record has
RecordKeys == {"nombre", "liquido", "pct_jub_ley11087"}
FrameKeys == RecordKeys \cup {"extra"}

RecordValues(key) ==
    IF key = "nombre" THEN {Str("ANA"), Str("BO")}
    ELSE IF key = "liquido" THEN {Num(150)}
    ELSE {Num(13)}

\* records with some of the keys
Records ==
    UNION {{r \in [ks -> UNION {RecordValues(k) : k \in ks}] :
               \A k \in ks : r[k] \in RecordValues(k)} : ks \in SUBSET RecordKeys}

\* the lists the exports hand over: is_processed, hence some record
RecordLists == UNION {[1..n -> Records] : n \in 1..MaxRecs}

\* lists of different keys, as _get_selected_keys builds them
KeyLists ==
    {ks \in UNION {[1..n -> FrameKeys] : n \in 1..MaxKeys} :
        \A i \in 1..Len(ks) : \A j \in 1..Len(ks) : i # j => ks[i] # ks[j]}

InitFrame ==
    /\ consolidated \in RecordLists
    /\ selected_keys \in KeyLists
    /\ df = <<>>
    /\ file = MissingFile
    /\ raw_text = <<>>
    /\ blocks = <<>>
    /\ concept_names_dv = {}
    /\ concept_names_rt = {}
    /\ chunks = <<>>
    /\ parsed = <<>>
    /\ pc = "frame"
    /\ err = "none"
    /\ calls = <<>>
    /\ attempts = <<>>
    /\ file_paths = <<>>
    /\ idx = 0
    /\ all_blocks = <<>>
    /\ signal = "none"
    /\ payload = <<>>
    /\ num_text = <<>>
    /\ num_value = <<>>
    /\ num_shown = <<>>
    /\ totals = <<>>
    /\ extractors = <<>>
    /\ workers = <<>>
    /\ window = <<>>
    /\ threads = <<>>
    /\ handler = "none"
    /\ cleared = FALSE
    /\ finished_seen = FALSE
    /\ col_checks = <<>>

\* the call to_dataframe(consolidated, selected_keys)
ToDataframe ==
    /\ df = <<>>
    /\ df' = <<to_dataframe(consolidated, selected_keys)>>
    /\ UNCHANGED <<selected_keys, totals, pipeVars, threadVars, numberVars, poolVars, windowVars>>

\* the call calculate_totals(df)
CalculateTotals ==
    /\ df # <<>>
    /\ totals = <<>>
    /\ totals' = <<calculate_totals(df[1])>>
    /\ UNCHANGED <<selected_keys, df, pipeVars, threadVars, numberVars, poolVars, windowVars>>

NextFrame == ToDataframe \/ CalculateTotals

SpecFrame == InitFrame /\ [][NextFrame]_vars

----------------------------------------------------------------------------
(* PDFExtractor objects used side by side, and one object used again *)

\* PDFExtractor(): the attributes __init__ gives the object
NewExtractor ==
    [raw_text |-> <<>>, blocks |-> <<>>,
     concept_names_dv |-> {}, concept_names_rt |-> {}]

\* the caller before its first call
NewWorker ==
    [pc |-> "idle", raw_blocks |-> <<>>, todo |-> <<>>, entry |-> NewExtractor,
     log |-> <<>>]

\* the attributes as attributes of the class: one copy for every extractor
SelfOfClass(i) == 1

\* self: the object whose attributes the methods of extractor i read and write
Self(i) == i

\* load_file writing its text whether it read one or not
store_text_always(obj, out) == [obj EXCEPT !.raw_text = out.text]

\* load_file on the object: self._raw_text = text before it returns, nothing
\* before it raises
store_text(obj, out) ==
    IF out.raised = "none" THEN [obj EXCEPT !.raw_text = out.text] ELSE obj

\* extract_blocks without its first test
no_text_never(obj) == FALSE

\* not self._raw_text
no_text(obj) == obj.raw_text = <<>>

\* self._blocks = [] and the two sets of concept names emptied
reset_blocks(obj) ==
    [obj EXCEPT !.blocks = <<>>, !.concept_names_dv = {}, !.concept_names_rt = {}]

\* one turn of the loop of extract_blocks: the block of raw, if there is
\* one, is appended and its concept names are added
append_block(obj, raw) ==
    [obj EXCEPT !.blocks = @ \o parse_block(raw),
                !.concept_names_dv = @ \cup ConceptNames(parse_block(raw), "conceptos_dv"),
                !.concept_names_rt = @ \cup ConceptNames(parse_block(raw), "conceptos_rt")]

\* a finished call as the caller saw it
Call(op, f, raised, before, after, pieces) ==
    [op |-> op, file |-> f, raised |-> raised, before |-> before, after |-> after,
     raw_blocks |-> pieces]

\* extractor i: load_file(f), one step
CallLoadFile(i, f, max) ==
    /\ workers[i].pc = "idle"
    /\ Len(workers[i].log) < max
    /\ LET out == load_file(f)
           obj == extractors[Self(i)]
       IN  /\ extractors' = [extractors EXCEPT ![Self(i)] = store_text(obj, out)]
           /\ workers' = [workers EXCEPT ![i].log =
                             Append(@, Call("load_file", <<f>>, out.raised, obj,
                                            store_text(obj, out), <<>>))]
    /\ UNCHANGED <<pipeVars, threadVars, numberVars, frameVars, windowVars>>

\* extractor i: extract_blocks up to its loop: the test of the text, the
\* split, the reset of the block list
EnterExtractBlocks(i, max) ==
    /\ workers[i].pc = "idle"
    /\ Len(workers[i].log) < max
    /\ LET obj == extractors[Self(i)]
       IN  IF no_text(obj)
           THEN /\ workers' = [workers EXCEPT ![i].log =
                                  Append(@, Call("extract_blocks", <<>>,
                                                 "ValueError: no text", obj, obj, <<>>))]
                /\ UNCHANGED extractors
           ELSE /\ extractors' = [extractors EXCEPT ![Self(i)] = reset_blocks(obj)]
                /\ workers' = [workers EXCEPT ![i].pc = "parsing",
                                              ![i].raw_blocks = SplitIdHr(obj.raw_text),
                                              ![i].todo = SplitIdHr(obj.raw_text),
                                              ![i].entry = obj]
    /\ UNCHANGED <<pipeVars, threadVars, numberVars, frameVars, windowVars>>

\* extractor i: one turn of the loop of extract_blocks
ParseNext(i) ==
    /\ workers[i].pc = "parsing"
    /\ workers[i].todo # <<>>
    /\ extractors' = [extractors EXCEPT ![Self(i)] =
                         append_block(@, Head(workers[i].todo))]
    /\ workers' = [workers EXCEPT ![i].todo = Tail(@)]
    /\ UNCHANGED <<pipeVars, threadVars, numberVars, frameVars, windowVars>>

\* extractor i: the end of extract_blocks: the error of no records, or the
\* block list returned
LeaveExtractBlocks(i) ==
    /\ workers[i].pc = "parsing"
    /\ workers[i].todo = <<>>
    /\ LET obj == extractors[Self(i)]
       IN  workers' = [workers EXCEPT
               ![i].pc = "idle",
               ![i].log = Append(@, Call("extract_blocks", <<>>,
                                         IF obj.blocks = <<>>
                                         THEN "ValueError: no records" ELSE "none",
                                         workers[i].entry, obj, workers[i].raw_blocks))]
    /\ UNCHANGED <<extractors, pipeVars, threadVars, numberVars, frameVars, windowVars>>

\* the files of the extractors: missing, without a record, one record, two
PoolFiles ==
    {MissingFile, PlainFile(NoRecords), PlainFile(Statement),
     PlainFile(Statement \o StatementBo)}

\* several extractors, each with its own caller
InitPool ==
    /\ extractors = [i \in 1..MaxExtractors |-> NewExtractor]
    /\ workers = [i \in 1..MaxExtractors |-> NewWorker]
    /\ file = MissingFile
    /\ raw_text = <<>>
    /\ blocks = <<>>
    /\ concept_names_dv = {}
    /\ concept_names_rt = {}
    /\ chunks = <<>>
    /\ parsed = <<>>
    /\ pc = "pool"
    /\ err = "none"
    /\ consolidated = <<>>
    /\ calls = <<>>
    /\ attempts = <<>>
    /\ file_paths = <<>>
    /\ idx = 0
    /\ all_blocks = <<>>
    /\ signal = "none"
    /\ payload = <<>>
    /\ num_text = <<>>
    /\ num_value = <<>>
    /\ num_shown = <<>>
    /\ selected_keys = <<>>
    /\ df = <<>>
    /\ totals = <<>>
    /\ window = <<>>
    /\ threads = <<>>
    /\ handler = "none"
    /\ cleared = FALSE
    /\ finished_seen = FALSE
    /\ col_checks = <<>>

\* each extractor is made for one file, as in the loop of ProcessThread.run:
\* load_file is its first call or none, and extract_blocks comes within its
\* first two calls
NextPool ==
    \E i \in 1..MaxExtractors :
        \/ \E f \in PoolFiles : CallLoadFile(i, f, 1)
        \/ EnterExtractBlocks(i, 2)
        \/ ParseNext(i)
        \/ LeaveExtractBlocks(i)

SpecPool == InitPool /\ [][NextPool]_vars

\* the files handed to one extractor, call after call
ReuseFiles == PoolFiles \cup {UnreadableFile, PlainFile(StatementBo)}

\* one extractor called again and again
InitReuse ==
    /\ extractors = [i \in {1} |-> NewExtractor]
    /\ workers = [i \in {1} |-> NewWorker]
    /\ file = MissingFile
    /\ raw_text = <<>>
    /\ blocks = <<>>
    /\ concept_names_dv = {}
    /\ concept_names_rt = {}
    /\ chunks = <<>>
    /\ parsed = <<>>
    /\ pc = "reuse"
    /\ err = "none"
    /\ consolidated = <<>>
    /\ calls = <<>>
    /\ attempts = <<>>
    /\ file_paths = <<>>
    /\ idx = 0
    /\ all_blocks = <<>>
    /\ signal = "none"
    /\ payload = <<>>
    /\ num_text = <<>>
    /\ num_value = <<>>
    /\ num_shown = <<>>
    /\ selected_keys = <<>>
    /\ df = <<>>
    /\ totals = <<>>
    /\ window = <<>>
    /\ threads = <<>>
    /\ handler = "none"
    /\ cleared = FALSE
    /\ finished_seen = FALSE
    /\ col_checks = <<>>

NextReuse ==
    \/ \E f \in ReuseFiles : CallLoadFile(1, f, MaxOps)
    \/ EnterExtractBlocks(1, MaxOps)
    \/ ParseNext(1)
    \/ LeaveExtractBlocks(1)

SpecReuse == InitReuse /\ [][NextReuse]_vars

----------------------------------------------------------------------------
(* MainWindow (ui/main_window.py): files, PROCESAR, the worker, its signals *)

\* MainWindow(): the state of __init__ and the buttons as _build_ui leaves them
NewWindow ==
    [file_paths |-> <<>>, raw_blocks |-> <<>>, consolidated |-> <<>>,
     is_processed |-> FALSE, radio_alpha |-> TRUE,
     btn_process |-> FALSE, btn_load |-> TRUE, btn_load_multi |-> TRUE,
     btn_excel |-> FALSE, btn_csv |-> FALSE]

\* _add_files(paths)
add_files(w, paths) ==
    [w EXCEPT !.file_paths = paths, !.is_processed = FALSE,
              !.btn_process = TRUE, !.btn_excel = FALSE, !.btn_csv = FALSE]

\* _on_process leaving the process button as it is
on_process_armed(w) ==
    [w EXCEPT !.btn_load = FALSE, !.btn_load_multi = FALSE,
              !.btn_excel = FALSE, !.btn_csv = FALSE]

\* _on_process with files: the controls disabled during the run
on_process(w) ==
    [w EXCEPT !.btn_process = FALSE, !.btn_load = FALSE, !.btn_load_multi = FALSE,
              !.btn_excel = FALSE, !.btn_csv = FALSE]

\* _on_finished(blocks): the exception of consolidate ends the handler after
\* raw_blocks was set
on_finished(w, bs) ==
    IF consolidate(bs, w.radio_alpha).raised # "none"
    THEN [w EXCEPT !.raw_blocks = bs]
    ELSE [w EXCEPT !.raw_blocks = bs,
                   !.consolidated = consolidate(bs, w.radio_alpha).value,
                   !.is_processed = TRUE,
                   !.btn_process = TRUE, !.btn_load = TRUE, !.btn_load_multi = TRUE,
                   !.btn_excel = TRUE, !.btn_csv = TRUE]

\* _on_error enabling the export buttons too
on_error_exports(w) ==
    [w EXCEPT !.btn_process = TRUE, !.btn_load = TRUE, !.btn_load_multi = TRUE,
              !.btn_excel = TRUE, !.btn_csv = TRUE]

\* _on_error(msg)
on_error(w) ==
    [w EXCEPT !.btn_process = TRUE, !.btn_load = TRUE, !.btn_load_multi = TRUE]

\* _on_sort_changed, the radio button already set
on_sort_changed(w) ==
    IF ~w.is_processed \/ w.raw_blocks = <<>> THEN w
    ELSE IF consolidate(w.raw_blocks, w.radio_alpha).raised # "none" THEN w
    ELSE [w EXCEPT !.consolidated = consolidate(w.raw_blocks, w.radio_alpha).value]

\* _on_clear
on_clear(w) ==
    [w EXCEPT !.file_paths = <<>>, !.raw_blocks = <<>>, !.consolidated = <<>>,
              !.is_processed = FALSE,
              !.btn_process = FALSE, !.btn_excel = FALSE, !.btn_csv = FALSE]

\* extractor = PDFExtractor(); extractor.load_file(path);
\* extractor.extract_blocks(): the exception of the first call that raises, or
\* the blocks
extract_file(f) ==
    IF load_file(f).raised # "none"
    THEN [raised |-> load_file(f).raised, value |-> <<>>]
    ELSE extract_blocks(load_file(f).text)

\* ProcessThread(file_paths) before run; outcomes is what the files of the
\* list hold for the turns of the loop, payload the list the finished signal
\* carries, message the text the error signal carries
NewThread(paths) ==
    [file_paths |-> paths, idx |-> 1, all_blocks |-> <<>>, emitted |-> <<>>,
     payload |-> <<>>, message |-> "", delivered |-> FALSE,
     outcomes |-> [i \in 1..Len(paths) |-> extract_file(paths[i])]]

\* what the file dialogs hand over: one file or several, never none
WindowFiles == {MissingFile, PlainFile(Statement), PlainFile(StatementBo)}
WindowBatches ==
    {<<f>> : f \in WindowFiles}
        \cup {<<PlainFile(Statement), PlainFile(StatementBo)>>,
              <<PlainFile(Statement), MissingFile>>}

InitWindow ==
    /\ window = NewWindow
    /\ threads = <<>>
    /\ handler = "none"
    /\ cleared = FALSE
    /\ finished_seen = FALSE
    /\ col_checks = <<>>
    /\ file = MissingFile
    /\ raw_text = <<>>
    /\ blocks = <<>>
    /\ concept_names_dv = {}
    /\ concept_names_rt = {}
    /\ chunks = <<>>
    /\ parsed = <<>>
    /\ pc = "window"
    /\ err = "none"
    /\ consolidated = <<>>
    /\ calls = <<>>
    /\ attempts = <<>>
    /\ file_paths = <<>>
    /\ idx = 0
    /\ all_blocks = <<>>
    /\ signal = "none"
    /\ payload = <<>>
    /\ num_text = <<>>
    /\ num_value = <<>>
    /\ num_shown = <<>>
    /\ selected_keys = <<>>
    /\ df = <<>>
    /\ totals = <<>>
    /\ extractors = <<>>
    /\ workers = <<>>

\* "Cargar Archivo": _on_load_single with a file chosen
OnLoadSingle(path) ==
    /\ window.btn_load
    /\ window' = add_files(window, <<path>>)
    /\ handler' = "load_single"
    /\ cleared' = FALSE
    /\ finished_seen' = FALSE
    /\ UNCHANGED <<threads, col_checks, pipeVars, threadVars, numberVars, frameVars, poolVars>>

\* "Cargar Multiples": _on_load_multiple with files chosen
OnLoadMultiple(paths) ==
    /\ window.btn_load_multi
    /\ window' = add_files(window, paths)
    /\ handler' = "load_multiple"
    /\ cleared' = FALSE
    /\ finished_seen' = FALSE
    /\ UNCHANGED <<threads, col_checks, pipeVars, threadVars, numberVars, frameVars, poolVars>>

\* "PROCESAR": _on_process: a warning without files, a new thread with files
OnProcess ==
    /\ window.btn_process
    /\ Len(threads) < MaxRuns
    /\ IF window.file_paths = <<>>
       THEN UNCHANGED <<window, threads>>
       ELSE /\ window' = on_process(window)
            /\ threads' = Append(threads, NewThread(window.file_paths))
    /\ handler' = "process"
    /\ UNCHANGED <<cleared, finished_seen, col_checks, pipeVars, threadVars, numberVars,
                   frameVars, poolVars>>

\* one turn of the loop of run on the thread th: the blocks of the file are
\* added, or the exception of load_file or extract_blocks is emitted as the
\* error signal
run_turn(th) ==
    IF th.outcomes[th.idx].raised # "none"
    THEN [th EXCEPT !.emitted = <<"error">>, !.message = th.outcomes[th.idx].raised]
    ELSE [th EXCEPT !.all_blocks = @ \o th.outcomes[th.idx].value, !.idx = @ + 1]

\* thread t: one turn of the loop of run
RunFile(t) ==
    /\ threads[t].emitted = <<>>
    /\ threads[t].idx <= Len(threads[t].file_paths)
    /\ threads' = [threads EXCEPT ![t] = run_turn(threads[t])]
    /\ handler' = "run"
    /\ UNCHANGED <<window, cleared, finished_seen, col_checks, pipeVars, threadVars,
                   numberVars, frameVars, poolVars>>

\* thread t: the end of the loop of run, the finished signal
RunFinished(t) ==
    /\ threads[t].emitted = <<>>
    /\ threads[t].idx > Len(threads[t].file_paths)
    /\ threads' = [threads EXCEPT ![t].emitted = <<"finished">>,
                                  ![t].payload = threads[t].all_blocks]
    /\ handler' = "run"
    /\ UNCHANGED <<window, cleared, finished_seen, col_checks, pipeVars, threadVars,
                   numberVars, frameVars, poolVars>>

\* the finished signal of thread t reaches the window: _on_finished
OnFinished(t) ==
    /\ threads[t].emitted = <<"finished">>
    /\ ~threads[t].delivered
    /\ window' = on_finished(window, threads[t].payload)
    /\ threads' = [threads EXCEPT ![t].delivered = TRUE]
    /\ handler' = "finished"
    /\ finished_seen' = TRUE
    /\ UNCHANGED <<cleared, col_checks, pipeVars, threadVars, numberVars, frameVars,
                   poolVars>>

\* the error signal of thread t reaches the window: _on_error
OnError(t) ==
    /\ threads[t].emitted = <<"error">>
    /\ ~threads[t].delivered
    /\ window' = on_error(window)
    /\ threads' = [threads EXCEPT ![t].delivered = TRUE]
    /\ handler' = "error"
    /\ UNCHANGED <<cleared, finished_seen, col_checks, pipeVars, threadVars, numberVars,
                   frameVars, poolVars>>

\* a click on one of the two radio buttons: _on_sort_changed
OnSortChanged(alpha) ==
    /\ window' = on_sort_changed([window EXCEPT !.radio_alpha = alpha])
    /\ handler' = "sort_changed"
    /\ UNCHANGED <<threads, cleared, finished_seen, col_checks, pipeVars, threadVars,
                   numberVars, frameVars, poolVars>>

\* "Limpiar Todo": _on_clear
OnClear ==
    /\ window' = on_clear(window)
    /\ handler' = "clear"
    /\ cleared' = TRUE
    /\ finished_seen' = FALSE
    /\ UNCHANGED <<threads, col_checks, pipeVars, threadVars, numberVars, frameVars,
                   poolVars>>

\* the steps of the threads and the delivery of their signals
Background ==
    \E t \in DOMAIN threads :
        RunFile(t) \/ RunFinished(t) \/ OnFinished(t) \/ OnError(t)

NextWindow ==
    \/ \E path \in WindowFiles : OnLoadSingle(path)
    \/ \E paths \in WindowBatches : OnLoadMultiple(paths)
    \/ OnProcess
    \/ \E alpha \in BOOLEAN : OnSortChanged(alpha)
    \/ OnClear
    \/ \E t \in DOMAIN threads : RunFile(t)
    \/ \E t \in DOMAIN threads : RunFinished(t)
    \/ \E t \in DOMAIN threads : OnFinished(t)
    \/ \E t \in DOMAIN threads : OnError(t)

SpecWindow == InitWindow /\ [][NextWindow]_vars

\* the threads run to their end and Qt delivers every queued signal; what
\* the user does is left open
SpecWindowFair == SpecWindow /\ WF_vars(Background)

----------------------------------------------------------------------------
(* MainWindow: the column checkboxes and _get_selected_keys *)

\* the fixed order of _get_selected_keys
order ==
    <<"rem_con_aporte", "liquido", "complemento_remunerativo", "ajuste_apross",
      "descuento_apross_familiar", "pct_jub_ley11087">>

\* the checkboxes as _make_config_panel leaves them
NewChecks ==
    [k \in {"nombre"} \cup {order[j] : j \in 1..Len(order)} |->
        k \in {"nombre", "rem_con_aporte", "liquido"}]

\* the links with the one from 'Liquido' to 'Rem c/ Aporte' left out
toggled_one_way == [rem_con_aporte |-> "liquido"]

\* the toggled connections: the checkbox each of the two sets
toggled == [rem_con_aporte |-> "liquido", liquido |-> "rem_con_aporte"]

\* setChecked(checked) on the checkbox of key: nothing when it has that state
\* already, else the new state and the slot connected to toggled
RECURSIVE setChecked(_, _, _)
setChecked(checks, key, checked) ==
    IF checks[key] = checked THEN checks
    ELSE IF key \in DOMAIN toggled
    THEN setChecked([checks EXCEPT ![key] = checked], toggled[key], checked)
    ELSE [checks EXCEPT ![key] = checked]

\* _get_selected_keys on the first n keys of order
RECURSIVE KeysUpTo(_, _)
KeysUpTo(checks, n) ==
    IF n = 0 THEN <<"nombre">>
    ELSE IF order[n] \in DOMAIN checks /\ checks[order[n]]
    THEN Append(KeysUpTo(checks, n - 1), order[n])
    ELSE KeysUpTo(checks, n - 1)

\* _get_selected_keys()
get_selected_keys(checks) == KeysUpTo(checks, Len(order))

InitColumns ==
    /\ col_checks = NewChecks
    /\ selected_keys = <<>>
    /\ file = MissingFile
    /\ raw_text = <<>>
    /\ blocks = <<>>
    /\ concept_names_dv = {}
    /\ concept_names_rt = {}
    /\ chunks = <<>>
    /\ parsed = <<>>
    /\ pc = "columns"
    /\ err = "none"
    /\ consolidated = <<>>
    /\ calls = <<>>
    /\ attempts = <<>>
    /\ file_paths = <<>>
    /\ idx = 0
    /\ all_blocks = <<>>
    /\ signal = "none"
    /\ payload = <<>>
    /\ num_text = <<>>
    /\ num_value = <<>>
    /\ num_shown = <<>>
    /\ df = <<>>
    /\ totals = <<>>
    /\ extractors = <<>>
    /\ workers = <<>>
    /\ window = <<>>
    /\ threads = <<>>
    /\ handler = "none"
    /\ cleared = FALSE
    /\ finished_seen = FALSE

\* a click on a checkbox; that of the name is disabled
Toggle(key) ==
    /\ col_checks' = setChecked(col_checks, key, ~col_checks[key])
    /\ UNCHANGED <<window, threads, handler, cleared, finished_seen, selected_keys, df,
                   totals, pipeVars, threadVars, numberVars, poolVars>>

\* _get_selected_keys called by an export or by _fill_table
GetSelectedKeys ==
    /\ selected_keys' = get_selected_keys(col_checks)
    /\ UNCHANGED <<windowVars, df, totals, pipeVars, threadVars, numberVars, poolVars>>

NextColumns ==
    \/ \E j \in 1..Len(order) : Toggle(order[j])
    \/ GetSelectedKeys

SpecColumns == InitColumns /\ [][NextColumns]_vars

----------------------------------------------------------------------------
(* Properties *)

BlockNames == {blocks[i].nombre : i \in 1..Len(blocks)}

\* attr added up over the first n blocks that carry the name
RECURSIVE SumOver(_, _, _)
SumOver(n, name, attr) ==
    IF n = 0 THEN 0
    ELSE SumOver(n - 1, name, attr)
             + (IF blocks[n].nombre = name THEN blocks[n][attr] ELSE 0)

SummedFields ==
    {"rem_con_aporte", "liquido", "complemento_remunerativo", "ajuste_apross",
     "descuento_apross_familiar"}

Returned(call) == call.raised = "none"

RowsOf(call, name) == {k \in 1..Len(call.value) : call.value[k].nombre = name}

\* C1: on a file that load_file and extract_blocks accept,
\* consolidate(blocks, sort_alpha=True) returns, and returns at least one record.
C1_PipelineConsolidates ==
    \A i \in 1..Len(calls) :
        calls[i].sort_alpha => Returned(calls[i]) /\ Len(calls[i].value) >= 1

\* C2: every name of the block list has a consolidated record whose summed
\* fields are the sums of the fields over the blocks of that name.
C2_SumInvariant ==
    \A i \in 1..Len(calls) :
        /\ Returned(calls[i])
        /\ \A name \in BlockNames :
               \E k \in RowsOf(calls[i], name) :
                   \A attr \in SummedFields :
                       calls[i].value[k][attr] = SumOver(Len(blocks), name, attr)

\* the contribution figure of a block, 0 for a block that carries none
Contribution(b) ==
    IF "aporte_jub_ley11087" \in DOMAIN b THEN b.aporte_jub_ley11087 ELSE 0

RECURSIVE WeightedSum(_, _, _)
WeightedSum(n, name, base) ==
    IF n = 0 THEN 0
    ELSE WeightedSum(n - 1, name, base)
             + (IF /\ blocks[n].nombre = name
                   /\ Contribution(blocks[n]) > 0
                   /\ blocks[n].rem_con_aporte > 0
                THEN (IF base THEN blocks[n].rem_con_aporte
                      ELSE Contribution(blocks[n]))
                ELSE 0)

ExpectedPct(name) ==
    LET den == WeightedSum(Len(blocks), name, TRUE)
        num == WeightedSum(Len(blocks), name, FALSE)
    IN  IF den = 0 THEN 0 ELSE (200 * num + den) \div (2 * den)

\* C3: every name of the block list has a consolidated record whose percentage
\* is the weighted average over the blocks that pass the filter, 0 if none does.
C3_PercentageWeighting ==
    \A i \in 1..Len(calls) :
        /\ Returned(calls[i])
        /\ \A name \in BlockNames :
               \E k \in RowsOf(calls[i], name) :
                   calls[i].value[k].pct_jub_ley11087 = ExpectedPct(name)

\* C4: consolidate returns exactly one record for each name of the block list
\* and no record for any other name.
C4_OneRecordPerName ==
    \A i \in 1..Len(calls) :
        /\ Returned(calls[i])
        /\ \A name \in BlockNames : Cardinality(RowsOf(calls[i], name)) = 1
        /\ \A k \in 1..Len(calls[i].value) : calls[i].value[k].nombre \in BlockNames

FirstIndex(name) == Min({n \in 1..Len(blocks) : blocks[n].nombre = name})

\* C5: the records returned cover the names, in first-seen order when the flag
\* is false and in ascending order of name when it is true.
C5_RecordOrder ==
    \A i \in 1..Len(calls) :
        LET rows == calls[i].value
        IN  /\ Returned(calls[i])
            /\ {rows[k].nombre : k \in 1..Len(rows)} = BlockNames
            /\ \A k, m \in 1..Len(rows) :
                   k < m =>
                       IF calls[i].sort_alpha
                       THEN StrLess(rows[k].nombre, rows[m].nombre)
                       ELSE FirstIndex(rows[k].nombre) < FirstIndex(rows[m].nombre)

\* C6: two calls with the same block list and the same flag both return, and
\* return the same sequence of records.
C6_Idempotent ==
    \A i, j \in 1..Len(calls) :
        calls[i].sort_alpha = calls[j].sort_alpha =>
            /\ Returned(calls[i])
            /\ Returned(calls[j])
            /\ calls[i].value = calls[j].value

RowSet(call) == {call.value[k] : k \in 1..Len(call.value)}

\* C7: a call with the flag true and a call with the flag false both return,
\* and return the same set of records.
C7_SortOnlyReorders ==
    \A i, j \in 1..Len(calls) :
        calls[i].sort_alpha /\ ~calls[j].sort_alpha =>
            /\ Returned(calls[i])
            /\ Returned(calls[j])
            /\ RowSet(calls[i]) = RowSet(calls[j])

\* C8: segmentation gives as many chunks as the text has internal-id labels,
\* and every chunk begins with the label.
C8_SegmentationCount ==
    chunks # <<>> =>
        /\ Len(chunks) = Cardinality(IdPositions(raw_text))
        /\ \A i \in 1..Len(chunks) : chunks[i] # <<>> /\ chunks[i][1] = LblId

BeginsWithId(c) == c # <<>> /\ c[1] = LblId

\* C9: the blocks of an extraction are those of the chunks that begin with the
\* internal-id label; the text before the first label gives none.
C9_LeadingTextDiscarded ==
    chunks # <<>> => blocks = ParseAll(SelectSeq(chunks, BeginsWithId))

FieldLabels ==
    {LblId, LblCargo, LblRol, LblDias, LblFecha, LblRem, LblRemSin, LblLiq,
     LblComp, LblAjuste, LblDesc, TagDV, TagRT}

HasNameLabel(c) == \E k \in 1..Len(c) : c[k] = LblNombre

\* the name field (label, value, "Centro Pago") and no label of another field
NameOnly(c) == RE_NOMBRE(c) # <<>> /\ \A k \in 1..Len(c) : c[k] \notin FieldLabels

AllDefaultsButName(b) ==
    /\ b.id_hr = <<>> /\ b.cargo = <<>> /\ b.rol = <<>>
    /\ b.dias_trab = <<>> /\ b.fecha_alta = <<>>
    /\ b.rem_con_aporte = 0 /\ b.rem_sin_aporte = 0 /\ b.liquido = 0
    /\ b.complemento_remunerativo = 0 /\ b.ajuste_apross = 0
    /\ b.descuento_apross_familiar = 0
    /\ DOMAIN b.conceptos_dv = {} /\ DOMAIN b.conceptos_rt = {}

BlankName(c) == RE_NOMBRE(c) # <<>> /\ Strip(Join(RE_NOMBRE(c)[1])) = <<>>

\* C11: every block of an extraction has a name that is not empty, is trimmed
\* and is upper-cased; a chunk whose name value is blank gives no block.
C11_NameNormalized ==
    /\ \A i \in 1..Len(blocks) :
           /\ blocks[i].nombre # <<>>
           /\ Strip(blocks[i].nombre) = blocks[i].nombre
           /\ Upper(blocks[i].nombre) = blocks[i].nombre
    /\ \A i \in 1..Len(chunks) : BlankName(chunks[i]) => parsed[i] = <<>>

\* the chunks that gave a block
Valid == {i \in 1..Len(parsed) : parsed[i] # <<>>}

\* the place in _blocks of the block of chunk i
Place(i) == Cardinality({j \in Valid : j <= i})

\* C12: once the text is segmented and parsed, extract_blocks raises the
\* no-records error exactly when no chunk gave a block; when it returns, the
\* blocks returned are not empty and are the blocks given, in chunk order.
C12_NoRecordsOrOrdered ==
    (pc \in {"extracted", "extract_failed"} /\ chunks # <<>>) =>
        /\ (err = "ValueError: no records") <=> (Valid = {})
        /\ (pc = "extracted") <=> (Valid # {})
        /\ pc = "extracted" =>
               /\ blocks # <<>>
               /\ Len(blocks) = Cardinality(Valid)
               /\ \A i \in Valid : blocks[Place(i)] = parsed[i][1]

\* C12 witness: an extraction that returns two different blocks
C12_Witness ==
    /\ pc = "extracted"
    /\ Len(blocks) = 2
    /\ blocks[1].nombre # blocks[2].nombre

\* C12 witness of the failure: a text with chunks and no block
C12_WitnessNoRecords ==
    /\ pc = "extract_failed"
    /\ Len(chunks) >= 2
    /\ err = "ValueError: no records"

\* the text an attempt of load_file gets out of the file, <<>> when it gets none
Yields(a) ==
    IF a = "pdfplumber" THEN Backend(file, file.plumber)
    ELSE IF a = "fitz" THEN Backend(file, file.fitz)
    ELSE IF a \in EncodingSet /\ a \in file.decodes /\ HasMarkers(file.content[a])
    THEN file.content[a]
    ELSE <<>>

Before(a, i) == \E j \in 1..(i - 1) : attempts[j] = a

\* C13: load_file calls a back-end only on a file that starts with %PDF-, the
\* second back-end only after the first gave no text, a decoding only when
\* there is no signature or both back-ends gave no text; the first attempt that
\* gives a text is the last attempt, and its text is the text loaded.
C13_AcquisitionChain ==
    /\ \A i \in 1..Len(attempts) :
           /\ attempts[i] \in {"pdfplumber", "fitz"} => file.header_pdf
           /\ attempts[i] = "fitz" =>
                  Before("pdfplumber", i) /\ Yields("pdfplumber") = <<>>
           /\ attempts[i] \in EncodingSet =>
                  \/ ~file.header_pdf
                  \/ /\ Before("pdfplumber", i) /\ Yields("pdfplumber") = <<>>
                     /\ Before("fitz", i) /\ Yields("fitz") = <<>>
           /\ Yields(attempts[i]) # <<>> =>
                  i = Len(attempts) /\ raw_text = Yields(attempts[i])
    /\ (attempts # <<>> /\ Yields(attempts[Len(attempts)]) = <<>>) => raw_text = <<>>

\* C13 witness: a file with the signature that both back-ends refuse and
\* that latin-1 decodes to a statement
C13_Witness ==
    /\ file.header_pdf
    /\ attempts = <<"header", "pdfplumber", "fitz", "utf-8", "latin-1">>
    /\ raw_text = Statement

\* the encodings load_file tried, in the order of the attempts
TriedEncodings == SelectSeq(attempts, LAMBDA a : a \in EncodingSet)

\* C14: the decodings are tried in the order utf-8, latin-1, cp1252, up to the
\* first that succeeds and shows the markers, whose text is the text loaded; a
\* text without the markers is never loaded by a decoding; when no attempt
\* gives a text load_file raises ValueError.
C14_TextAcquisition ==
    LET n == Len(TriedEncodings)
    IN  /\ TriedEncodings = SubSeq(Encodings, 1, n)
        /\ \A i \in 1..(n - 1) : Yields(Encodings[i]) = <<>>
        /\ (n > 0 /\ Yields(Encodings[n]) # <<>>) =>
               raw_text = file.content[Encodings[n]] /\ HasMarkers(raw_text)
        /\ (n > 0 /\ Yields(Encodings[n]) = <<>>) =>
               /\ n = Len(Encodings)
               /\ raw_text = <<>>
               /\ pc = "load_failed" => err = "ValueError"
        /\ (n > 0 /\ raw_text # <<>>) => HasMarkers(raw_text)

\* C14 witness: a statement in latin-1, which utf-8 does not decode
C14_Witness ==
    /\ pc = "loaded"
    /\ attempts = <<"header", "utf-8", "latin-1">>
    /\ raw_text = Append(Statement, Accent)

\* C14 witness of the failure: a file that latin-1 alone decodes, without markers
C14_WitnessUnreadable ==
    /\ pc = "load_failed"
    /\ attempts = <<"header", "utf-8", "latin-1", "cp1252">>
    /\ file.decodes = {"latin-1"}
    /\ err = "ValueError"

\* C15: load_file on a path that does not exist raises FileNotFoundError
\* without having tried anything; on a file that exists and gives no text it
\* raises ValueError, after the attempts.
C15_NotFoundFirst ==
    /\ pc = "load_failed" =>
           IF file.exists THEN err = "ValueError" /\ attempts # <<>>
           ELSE err = "FileNotFoundError" /\ attempts = <<>>
    /\ (~file.exists /\ pc # "new") =>
           /\ pc \in {"load_failed", "extract_failed"}
           /\ attempts = <<>>
           /\ raw_text = <<>>

\* C15 witness: load_file has failed on a path that does not exist
C15_Witness == pc = "load_failed" /\ ~file.exists /\ err = "FileNotFoundError"

\* C15 witness of the other error: a file that exists and cannot be read
C15_WitnessUnreadable == pc = "load_failed" /\ file = UnreadableFile /\ err = "ValueError"

\* the file gives blocks: load_file and extract_blocks both return on it
Readable(f) ==
    load_file(f).raised = "none" /\ extract_blocks(load_file(f).text).raised = "none"

\* the blocks of the readable files among the first n of the batch
RECURSIVE BlocksUpTo(_)
BlocksUpTo(n) ==
    IF n = 0 THEN <<>>
    ELSE BlocksUpTo(n - 1)
             \o (IF Readable(file_paths[n])
                 THEN extract_blocks(load_file(file_paths[n]).text).value ELSE <<>>)

\* C16: when the thread of a batch has ended, the blocks of every readable
\* file of the batch have been delivered with the finished signal, whatever
\* the other files of the batch are.
C16_BatchContinues ==
    (signal # "none" /\ BlocksUpTo(Len(file_paths)) # <<>>) =>
        /\ signal = "finished"
        /\ payload = BlocksUpTo(Len(file_paths))

\* a batch with a file in error and a readable file after it
C16_MixedBatch ==
    \E i \in 1..Len(file_paths) : \E j \in (i + 1)..Len(file_paths) :
        ~Readable(file_paths[i]) /\ Readable(file_paths[j])

\* C16, what the code does: the first file in error ends the batch, no block
\* is delivered and the files after it are not read.
C16_FirstErrorHalts ==
    (signal = "error" /\ C16_MixedBatch) =>
        /\ ~Readable(file_paths[idx])
        /\ \A k \in 1..(idx - 1) : Readable(file_paths[k])
        /\ payload \in {"FileNotFoundError", "ValueError", "ValueError: no records"}

AllDigits(s) == \A i \in 1..Len(s) : s[i] \in Digits

\* digits in groups of three between '.', the first group of one to three
GroupedDigits(h) ==
    /\ h # <<>>
    /\ h[1] \in Digits
    /\ \A i \in 1..Len(h) :
           IF (Len(h) - i + 1) % 4 = 0 THEN h[i] = "." ELSE h[i] \in Digits

CommaPositions(s) == {i \in 1..Len(s) : s[i] = ","}

IntPart(s) == SubSeq(s, 1, Min(CommaPositions(s) \cup {Len(s) + 1}) - 1)
FracPart(s) == SubSeq(s, Min(CommaPositions(s) \cup {Len(s) + 1}) + 1, Len(s))

\* a decimal of the locale: digits, plain or in groups of three between '.',
\* then possibly ',' and decimals
WellFormed(s) ==
    /\ Cardinality(CommaPositions(s)) <= 1
    /\ (IntPart(s) # <<>> /\ AllDigits(IntPart(s))) \/ GroupedDigits(IntPart(s))
    /\ CommaPositions(s) # {} => (FracPart(s) # <<>> /\ AllDigits(FracPart(s)))

\* the number a well-formed decimal writes
Written(s) == Number(DigitsVal(RemoveChar(IntPart(s), ".")), TrimZeros(FracPart(s)))

\* no digit, a character that is none of digit, '.', ',' and blank, or two ','
Unparsable(s) ==
    \/ \A i \in 1..Len(s) : s[i] \notin Digits
    \/ \E i \in 1..Len(s) : s[i] \notin Digits \cup {".", ",", " ", "\n"}
    \/ Cardinality(CommaPositions(s)) > 1

Normalized == pc = "number" /\ (num_value # <<>> \/ err # "none")

C17_WitnessDefault == num_text = <<"a", "b", "c">> /\ num_value = <<Zero>>

\* \d{1,3}(\.\d{3})*,\d{2}
InGrammar(s) ==
    /\ Cardinality(CommaPositions(s)) = 1
    /\ GroupedDigits(IntPart(s))
    /\ Len(FracPart(s)) = 2 /\ AllDigits(FracPart(s))

\* C18: a string of the grammar, normalized and formatted again, comes back
\* as it was.
C18_RoundTrip ==
    (num_shown # <<>> /\ InGrammar(num_text)) => num_shown[1] = num_text

\* the integer part is 0 or does not start with 0
NoLeadingZero(s) == IntPart(s) = <<"0">> \/ s[1] # "0"

\* C18 as the code has it: a string of the grammar that has no leading zero
\* and is above zero comes back as it was; one with leading zeros comes back
\* without them; zero is shown as a dash.
C18_RoundTripCanonical ==
    (num_shown # <<>> /\ InGrammar(num_text)) =>
        /\ (NoLeadingZero(num_text) /\ Positive(num_value[1])) => num_shown[1] = num_text
        /\ (~NoLeadingZero(num_text) /\ Positive(num_value[1])) =>
               /\ num_shown[1] # num_text
               /\ InGrammar(num_shown[1]) /\ NoLeadingZero(num_shown[1])
               /\ Written(num_shown[1]) = num_value[1]
        /\ ~Positive(num_value[1]) => num_shown[1] = Dash

\* C18 witness: a string with a group of thousands has come back
C18_Witness ==
    /\ InGrammar(num_text)
    /\ Len(num_text) = 8
    /\ num_shown = <<num_text>>

StringLabel ==
    [id_hr |-> LblId, cargo |-> LblCargo, rol |-> LblRol, dias_trab |-> LblDias,
     fecha_alta |-> LblFecha]

MoneyLabel ==
    [rem_con_aporte |-> LblRem, rem_sin_aporte |-> LblRemSin, liquido |-> LblLiq,
     complemento_remunerativo |-> LblComp, ajuste_apross |-> LblAjuste,
     descuento_apross_familiar |-> LblDesc]

HasLabel(c, lbl) == \E k \in 1..Len(c) : c[k] = lbl

\* what follows the label in the chunk never starts with an amount
NoFigure(c, lbl) ==
    \A k \in 1..Len(c) :
        c[k] = lbl => (SkipNL(c, k + 1) > Len(c) \/ AmountLen(c[SkipNL(c, k + 1)]) = 0)

C20_ColumnProjection ==
    df # <<>> =>
        /\ Len(df[1].rows) = Len(consolidated)
        /\ Len(df[1].columns) = Len(selected_keys)
        /\ \A j \in 1..Len(selected_keys) :
               df[1].columns[j] =
                   IF selected_keys[j] \in DOMAIN DISPLAY_NAMES
                   THEN DISPLAY_NAMES[selected_keys[j]] ELSE selected_keys[j]
        /\ \A i \in 1..Len(consolidated) :
               /\ DOMAIN df[1].rows[i] = {df[1].columns[j] : j \in 1..Len(selected_keys)}
               /\ \A j \in 1..Len(selected_keys) :
                      df[1].rows[i][df[1].columns[j]] =
                          IF selected_keys[j] \in DOMAIN consolidated[i]
                          THEN consolidated[i][selected_keys[j]]
                          ELSE IF selected_keys[j] = "nombre" THEN Str("") ELSE Num(0)

\* C20 witness: a frame of two records, the first with a name and without an
\* amount, the second without a name
C20_Witness ==
    /\ df # <<>>
    /\ selected_keys = <<"nombre", "liquido">>
    /\ Len(consolidated) = 2
    /\ DOMAIN consolidated[1] = {"nombre"}
    /\ "nombre" \notin DOMAIN consolidated[2]
    /\ df[1].rows[1]["Liquido"] = Num(0)
    /\ df[1].rows[2]["Apellido y Nombre"] = Str("")

\* the values of a column of the frame, added up over the first n rows
RECURSIVE AddedUp(_, _)
AddedUp(col, n) ==
    IF n = 0 THEN 0 ELSE AddedUp(col, n - 1) + df[1].rows[n][col].num

\* C21: the totals have an entry for each numeric column of the frame that
\* is neither the name column nor the percentage column, the sum of the
\* column over all the rows, and no other entry.
C21_Totals ==
    totals # <<>> =>
        /\ DOMAIN totals[1] =
               {c \in {df[1].columns[j] : j \in 1..Len(df[1].columns)} :
                    /\ c \notin {"Apellido y Nombre", "% Aporte Jub. Ley 11.087"}
                    /\ \A i \in 1..Len(df[1].rows) : "num" \in DOMAIN df[1].rows[i][c]}
        /\ \A col \in DOMAIN totals[1] : totals[1][col] = AddedUp(col, Len(df[1].rows))

\* C21 witness: the totals of a frame of two rows with an amount column and
\* the percentage column
C21_Witness ==
    /\ totals # <<>>
    /\ selected_keys = <<"liquido", "pct_jub_ley11087">>
    /\ Len(df[1].rows) = 2
    /\ DOMAIN totals[1] = {"Liquido"}
    /\ totals[1]["Liquido"] = 300

\* the calls of load_file that returned, among the first n calls of a log
Loaded(log, n) == {j \in 1..n : log[j].op = "load_file" /\ log[j].raised = "none"}

\* extract_blocks on a fresh extractor that loaded nothing but the file the
\* first n calls of the log loaded last
Alone(log, n) ==
    IF Loaded(log, n) = {} THEN extract_blocks(<<>>)
    ELSE extract_blocks(
             load_file(log[CHOOSE j \in Loaded(log, n) :
                               \A l \in Loaded(log, n) : l <= j].file[1]).text)

\* C22: with one extractor per file, under every interleaving of the steps
\* of the extractors, every extract_blocks call ends as it ends on an
\* extractor that works alone on the file its own extractor loaded last: the
\* same error or the same block list.
C22_Isolation ==
    \A i \in DOMAIN workers :
        \A k \in DOMAIN workers[i].log :
            workers[i].log[k].op = "extract_blocks" =>
                /\ workers[i].log[k].raised = Alone(workers[i].log, k - 1).raised
                /\ workers[i].log[k].after.blocks = Alone(workers[i].log, k - 1).value

\* C22 witness: two extractors that loaded different files and both
\* returned the blocks of their own file
C22_Witness ==
    /\ DOMAIN workers = {1, 2}
    /\ \A i \in {1, 2} :
           /\ Len(workers[i].log) = 2
           /\ workers[i].log[2].op = "extract_blocks"
           /\ workers[i].log[2].raised = "none"
    /\ workers[1].log[1].file # workers[2].log[1].file
    /\ Len(workers[1].log[2].after.blocks) = 2
    /\ Len(workers[2].log[2].after.blocks) = 1
    /\ extractors[1].blocks # extractors[2].blocks

\* C23: an extract_blocks call on an extractor on which no load_file has
\* returned finds the stored text empty, raises the error of no text,
\* splits nothing and leaves the stored block list as it was.
C23_NoTextLoaded ==
    \A k \in DOMAIN workers[1].log :
        (workers[1].log[k].op = "extract_blocks" /\ Loaded(workers[1].log, k - 1) = {}) =>
            /\ workers[1].log[k].before.raw_text = <<>>
            /\ workers[1].log[k].raised = "ValueError: no text"
            /\ workers[1].log[k].raw_blocks = <<>>
            /\ workers[1].log[k].after.blocks = workers[1].log[k].before.blocks

\* C23 witness: extract_blocks called after a load_file that raised
C23_Witness ==
    /\ Len(workers[1].log) = 2
    /\ workers[1].log[1].op = "load_file"
    /\ workers[1].log[1].raised # "none"
    /\ workers[1].log[2].op = "extract_blocks"
    /\ workers[1].log[2].raised = "ValueError: no text"

\* C27: a load_file call that raises leaves the stored text and the stored
\* block list as they were, and the extract_blocks call that follows it ends
\* as it ends on the file loaded before.
C27_FailedLoadKeepsState ==
    \A k \in DOMAIN workers[1].log :
        (workers[1].log[k].op = "load_file" /\ workers[1].log[k].raised # "none") =>
            /\ workers[1].log[k].after.raw_text = workers[1].log[k].before.raw_text
            /\ workers[1].log[k].after.blocks = workers[1].log[k].before.blocks
            /\ (k + 1 \in DOMAIN workers[1].log /\ workers[1].log[k + 1].op = "extract_blocks") =>
                   /\ workers[1].log[k + 1].raised = Alone(workers[1].log, k - 1).raised
                   /\ workers[1].log[k + 1].after.blocks = Alone(workers[1].log, k - 1).value

\* C27 witness: a file loaded and extracted, a load_file that raises, and
\* an extract_blocks that returns the blocks of the first file again
C27_Witness ==
    /\ Len(workers[1].log) = 4
    /\ workers[1].log[1].op = "load_file"
    /\ workers[1].log[1].raised = "none"
    /\ workers[1].log[2].op = "extract_blocks"
    /\ workers[1].log[3].op = "load_file"
    /\ workers[1].log[3].raised # "none"
    /\ workers[1].log[3].before.blocks # <<>>
    /\ workers[1].log[4].op = "extract_blocks"
    /\ workers[1].log[4].raised = "none"
    /\ workers[1].log[4].after.blocks = workers[1].log[2].after.blocks
    /\ workers[1].log[4].after.blocks # <<>>

\* the place of a key in the fixed order of the columns, 0 for the name
ColumnPlace(key) ==
    IF key = "nombre" THEN 0 ELSE CHOOSE j \in 1..Len(order) : order[j] = key

\* C26: the checkboxes of 'Rem c/ Aporte' and 'Liquido' have the same state
\* after every click, and every list of selected keys starts with the name
\* key, has both linked keys or neither, and follows the fixed order of the
\* columns, which leaves no key twice.
C26_LinkedColumns ==
    /\ col_checks["rem_con_aporte"] = col_checks["liquido"]
    /\ selected_keys # <<>> =>
           /\ selected_keys[1] = "nombre"
           /\ ("rem_con_aporte" \in {selected_keys[j] : j \in 1..Len(selected_keys)})
                  = ("liquido" \in {selected_keys[j] : j \in 1..Len(selected_keys)})
           /\ \A j \in 1..Len(selected_keys) :
                  selected_keys[j] \in {"nombre"} \cup {order[n] : n \in 1..Len(order)}
           /\ \A j, n \in 1..Len(selected_keys) :
                  j < n => ColumnPlace(selected_keys[j]) < ColumnPlace(selected_keys[n])

\* C26 witness: 'Liquido' was clicked off, which took 'Rem c/ Aporte' with
\* it, an optional column was clicked on, and the keys were read
C26_Witness ==
    /\ ~col_checks["liquido"]
    /\ ~col_checks["rem_con_aporte"]
    /\ col_checks["ajuste_apross"]
    /\ selected_keys = <<"nombre", "ajuste_apross">>

\* one of the two export buttons is enabled
ExportEnabled(w) == w.btn_excel \/ w.btn_csv

C25_SortReorders ==
    [][handler' = "sort_changed" =>
          IF finished_seen /\ window.raw_blocks # <<>>
          THEN /\ consolidate(window.raw_blocks, window'.radio_alpha).raised = "none"
               /\ window'.consolidated =
                      consolidate(window.raw_blocks, window'.radio_alpha).value
               /\ threads' = threads
               /\ window'.raw_blocks = window.raw_blocks
               /\ window'.file_paths = window.file_paths
          ELSE /\ window' = [window EXCEPT !.radio_alpha = window'.radio_alpha]
               /\ threads' = threads]_vars

\* the process button and the two load buttons are enabled
ControlsEnabled(w) == w.btn_process /\ w.btn_load /\ w.btn_load_multi

\* C28: every run that was started reaches a state in which its signal,
\* finished or error, has been handled and the process button and both load
\* buttons are enabled.
C28_ControlsReturn ==
    \A t \in 1..MaxRuns :
        [](t \in DOMAIN threads =>
              <>(/\ t \in DOMAIN threads
                 /\ threads[t].delivered
                 /\ ControlsEnabled(window)))

\* C29: from _on_clear until files are loaded again, file_paths, raw_blocks
\* and consolidated are empty, is_processed is false and no export button is
\* enabled, whatever a thread started before does.
C29_ClearHolds ==
    cleared =>
        /\ window.file_paths = <<>>
        /\ window.raw_blocks = <<>>
        /\ window.consolidated = <<>>
        /\ ~window.is_processed
        /\ ~ExportEnabled(window)

\* the threads that have not emitted their signal yet
Active == {t \in DOMAIN threads : threads[t].emitted = <<>>}

\* C30: at most one thread is running at any time, every thread was started
\* on a list of files that is not empty, no thread emits more than one
\* signal, and every thread comes to emit one, finished or error.
C30_OneWorker ==
    /\ [](/\ Cardinality(Active) <= 1
          /\ \A t \in DOMAIN threads :
                 /\ threads[t].file_paths # <<>>
                 /\ threads[t].emitted \in {<<>>, <<"finished">>, <<"error">>})
    /\ [][Len(threads') > Len(threads) => Active = {}]_vars
    /\ \A t \in 1..MaxRuns :
           [](t \in DOMAIN threads =>
                 <>(t \in DOMAIN threads /\ Len(threads[t].emitted) = 1))

\* C30 witness: a second thread runs, started after the first one emitted
\* its error signal and the window handled it
C30_Witness ==
    /\ Len(threads) = 2
    /\ threads[1].emitted = <<"error">>
    /\ threads[1].delivered
    /\ threads[2].emitted = <<>>
    /\ Active = {2}


====
